---- MODULE Spec2Model ----
(***************************************************************************)
(* Model of the Learning Genie media downloader: the chat text-association *)
(* search (scripts/download_chat.py, find_associated_text) and the         *)
(* download batch of both feeds (generate_filename, download_one,          *)
(* download_media of scripts/download_chat.py and scripts/download_home.py)*)
(* with the parsing of the two feeds (parse_messages, parse_notes), the    *)
(* run of a whole feed (run, sanitize_folder_name, set_metadata), the sync *)
(* state of fetch.py (load_last_sync, save_last_sync, main), load_config   *)
(* of config.py, run of download.py with the photos/new folder, the sync   *)
(* tool (sync.py, login.py) and successive sync runs on the chat feed.     *)
(*                                                                         *)
(* Strings that the code transforms (owner labels, timestamps, file types, *)
(* filenames) are sequences of one-character strings, so that replace(),   *)
(* concatenation and the {count:02d} format are computed, not assumed.     *)
(* Python's 0-based list indices are 1-based here: index k of the model is *)
(* index k-1 of the code.                                                  *)
(***************************************************************************)
EXTENDS Integers, Sequences, FiniteSets, TLC

VARIABLES
    \* ---- chat text association (parse_messages -> find_associated_text)
    items,          \* data['items']: the conversation list of message.json
    current_idx,    \* index of the media-bearing entry being processed
    tpc,            \* "ready" before the call, "done" after it, "off" when unused
    assoc_text,     \* the value find_associated_text returned (None or a text)
    scan_hit,       \* index of the entry whose message was returned, 0 if none
    scan_read,      \* the indices items[idx] the call read
    \* ---- one output directory and the download_media calls on it
    feed,           \* "chat" (download_chat.py) or "home" (download_home.py)
    media_items,    \* the media_items argument: records [owner, date, ftype]
    disk,           \* names of the files that exist in output_dir
    disk_at_start,  \* disk as it was when the current call began
    pc,             \* "off", "first_pass", "pool", "returned"
    run_no,         \* number of the download_media call on this directory
    date_counts,    \* defaultdict(int): base_key -> count
    filenames,      \* filename computed for item k, for the items passed so far
    already_exist,  \* counter of the first pass
    to_download,    \* indices of the items appended to to_download, in order
    future,         \* per item of to_download: state of its future
    attempts,       \* per item: number of urlretrieve calls made for it
    handled,        \* futures the as_completed loop has processed
    newly_downloaded, \* the result list (item indices, in completion order)
    written,        \* names of the files a fetch of this call wrote to
    \* ---- one run() of a feed script: parse, batches, tagging
    raw,            \* the parsed JSON input: data['items'] or the notes list
    has_exiftool,   \* what check_exiftool() returns in this run
    descriptors,    \* media_items as parse_messages / parse_notes return them
    by_dialog,      \* dialog names in first-seen order (chat), one batch (home)
    batch_no,       \* position in by_dialog of the batch being downloaded
    batch_items,    \* indices into descriptors of the items of that batch
    dirs,           \* the files below output_dir: folder -> set of filenames
    all_downloaded, \* the tuples download_media returned, in order
    tag_calls,      \* the exiftool invocations made, in order
    tag_failed,     \* positions in tag_calls of the invocations that failed
    warnings,       \* the "Warning: exiftool not found" lines printed
    run_result,     \* what run() returned (None while it runs)
    rpc,            \* "off", "start", "batches", "tagging", "tagged", "done"
    \* ---- sanitize_folder_name on its own
    san_name,       \* the argument
    san_result,     \* the returned folder name (None before the call)
    \* ---- fetch.py: the .last_sync file over successive fetch runs
    sync_file,      \* content of .last_sync: a record [kind, data]
    sync_before,    \* sync_file when the last run of main() began
    last_fetch,     \* arguments and results of the last run of main()
    fetch_no,       \* number of runs of main() so far
    \* ---- config.py: load_config
    config_file,    \* content of config.json: a record [kind, data]
    loaded_config,  \* what load_config() returned (None before the call)
    \* ---- download.py: run() over the photos/ tree
    photos,         \* files below photos/home and photos/chat: <<feed, name>>
    new_folder,     \* photos/new: None when it does not exist, else its files
    run_args,       \* arguments and input files of the last run()
    feed_calls,     \* the feed scripts the last run() called, in order
    results,        \* the results list of the last run()
    all_new_files,  \* what the last run() returned
    dlr_no,         \* number of run() calls so far
    \* ---- sync.py / login.py: one run of the sync tool
    tool_args,      \* entry point, mode and what the environment gave the run
    steps,          \* the steps started, in order: "fetch", "download"
    reports,        \* the failure and warning lines printed
    exit_status,    \* exit status of the process (None while it runs)
    \* ---- successive sync runs on the chat feed: fetch.py, then download.py
    arrived,        \* number of messages the server holds (ids 1..arrived)
    message_json,   \* ids of the messages in data/message.json (None: no file)
    written_msgs,   \* ids of the messages some run wrote to data/message.json
    media_disk,     \* ids of the messages whose media file is in photos/chat
    attempted,      \* ids whose media the latest download step tried to fetch
    failed_last,    \* ids whose fetch failed in the latest download step
    failed_before,  \* ids whose fetch failed in the download step before it
    sync_pc,        \* "off", "idle" (between runs), "fetched" (after fetch.py)
    \* ---- history of the output directory over all download_media calls
    fetched_ok      \* names of the files a fetch that succeeded has written

textVars == <<items, current_idx, tpc, assoc_text, scan_hit, scan_read>>

dlVars == <<feed, media_items, disk, disk_at_start, run_no, pc, date_counts,
            filenames, already_exist, to_download, future, attempts, handled,
            newly_downloaded, written>>

runVars == <<raw, has_exiftool, descriptors, by_dialog, batch_no, batch_items,
             dirs, all_downloaded, tag_calls, tag_failed, warnings, run_result,
             rpc>>

sanVars == <<san_name, san_result>>

syncVars == <<sync_file, sync_before, last_fetch, fetch_no>>

cfgVars == <<config_file, loaded_config>>

dlrVars == <<photos, new_folder, run_args, feed_calls, results, all_new_files,
             dlr_no>>

toolVars == <<tool_args, steps, reports, exit_status>>

feedVars == <<arrived, message_json, written_msgs, media_disk, attempted,
              failed_last, failed_before, sync_pc>>

moreVars == <<dlrVars, toolVars, feedVars, fetched_ok>>

extVars == <<runVars, sanVars, syncVars, cfgVars, moreVars>>

vars == <<textVars, dlVars, extVars>>

----------------------------------------------------------------------------
\* Python values

None == << >>
Some(v) == <<v>>

Abs(x) == IF x < 0 THEN -x ELSE x

\* The parts of the program that take no part in a specification stay idle.
RunOff ==
    /\ raw = << >>
    /\ has_exiftool = FALSE
    /\ descriptors = << >>
    /\ by_dialog = << >>
    /\ batch_no = 0
    /\ batch_items = << >>
    /\ dirs = << >>
    /\ all_downloaded = << >>
    /\ tag_calls = << >>
    /\ tag_failed = {}
    /\ warnings = 0
    /\ run_result = None
    /\ rpc = "off"

TextOff ==
    /\ items = << >>
    /\ current_idx = 0
    /\ tpc = "off"
    /\ assoc_text = None
    /\ scan_hit = 0
    /\ scan_read = {}

SanOff ==
    /\ san_name = << >>
    /\ san_result = None

SyncOff ==
    /\ sync_file = None
    /\ sync_before = None
    /\ last_fetch = None
    /\ fetch_no = 0

ConfigOff ==
    /\ config_file = None
    /\ loaded_config = None

DlrOff ==
    /\ photos = {}
    /\ new_folder = None
    /\ run_args = None
    /\ feed_calls = << >>
    /\ results = << >>
    /\ all_new_files = << >>
    /\ dlr_no = 0

ToolOff ==
    /\ tool_args = None
    /\ steps = << >>
    /\ reports = {}
    /\ exit_status = None

FeedOff ==
    /\ arrived = 0
    /\ message_json = None
    /\ written_msgs = {}
    /\ media_disk = {}
    /\ attempted = {}
    /\ failed_last = {}
    /\ failed_before = {}
    /\ sync_pc = "off"

HistOff == fetched_ok = {}

MoreOff == DlrOff /\ ToolOff /\ FeedOff /\ HistOff

----------------------------------------------------------------------------
\* scripts/download_chat.py: find_associated_text

TEXT_ASSOCIATION_WINDOW == 120

\* range(1, 20): the offsets are 1 .. SCAN_RANGE_STOP - 1
SCAN_RANGE_STOP == 20

Placeholders == {"[image]", "[video]", ""}

\* for direction in [1, -1]: the two directions swapped
Directions_Swapped == <<1, -1>>

\* for direction in [-1, 1]
Directions == <<-1, 1>>

\* The k-th iteration (k = 0, 1, ...) of the nested loops: offsets ascending,
\* and for each offset direction -1 before direction 1.
StepOffset(k) == (k \div 2) + 1
StepDirection(k) == Directions[(k % 2) + 1]
StepCount == 2 * (SCAN_RANGE_STOP - 1)

\* if 0 <= idx < len(items)
InList(its, idx) == 1 <= idx /\ idx <= Len(its)

\* The tests with the content_type test left out
Qualifies_AnyContentType(item, sender_id, date_sent) ==
    /\ item.sender_id = sender_id
    /\ item.message \notin {"[image]", "[video]", ""}
    /\ Abs(item.date_sent - date_sent) <= 120

\* The three tests of the loop body; an entry failing one is skipped (continue).
Qualifies(item, sender_id, date_sent) ==
    /\ item.sender_id = sender_id
    /\ ~(item.content_type # "txt" \/ item.message \in Placeholders)
    /\ Abs(item.date_sent - date_sent) <= TEXT_ASSOCIATION_WINDOW

\* The loops from iteration k on; read is the set of indices read so far.
RECURSIVE ScanFrom(_, _, _, _, _, _)
ScanFrom(its, idx0, sender_id, date_sent, k, read) ==
    IF k >= StepCount
    THEN [text |-> None, hit |-> 0, read |-> read]
    ELSE LET idx == idx0 + StepOffset(k) * StepDirection(k)
         IN  IF ~InList(its, idx)
             THEN ScanFrom(its, idx0, sender_id, date_sent, k + 1, read)
             ELSE IF Qualifies(its[idx], sender_id, date_sent)
                  THEN [text |-> Some(its[idx].message), hit |-> idx,
                        read |-> read \cup {idx}]
                  ELSE ScanFrom(its, idx0, sender_id, date_sent, k + 1,
                                read \cup {idx})

find_associated_text(its, idx0, sender_id, date_sent) ==
    ScanFrom(its, idx0, sender_id, date_sent, 0, {})

----------------------------------------------------------------------------
\* Conversations the search is run on

MaxLen == 22        \* longest conversation list
ShortLen == 4       \* lists of at most ShortLen or at least MaxLen - 1 entries
BaseDate == 1000    \* date_sent of the media-bearing entry

MediaSender == "teacher"
OtherSender == "parent"

Entry(s, ct, m, d) ==
    [sender_id |-> s, content_type |-> ct, message |-> m, date_sent |-> d]

\* The entry that carries the attachments
MediaEntry == Entry(MediaSender, "image", "[image]", BaseDate)

\* An entry that can never be associated: a photo of somebody else
Filler == Entry(OtherSender, "image", "[image]", BaseDate)

\* What the first marked entry may be; its message is m.
EntryKinds(m) ==
    {Entry(MediaSender, "txt", m, BaseDate + d) :
        d \in {0, TEXT_ASSOCIATION_WINDOW, -TEXT_ASSOCIATION_WINDOW,
               TEXT_ASSOCIATION_WINDOW + 1, -(TEXT_ASSOCIATION_WINDOW + 1)}}
    \cup {Entry(OtherSender, "txt", m, BaseDate),
          Entry(MediaSender, "image", m, BaseDate),
          Entry(MediaSender, "txt", "[image]", BaseDate),
          Entry(MediaSender, "txt", "[video]", BaseDate),
          Entry(MediaSender, "txt", "", BaseDate)}

\* A list of n entries: the media entry at i, e1 at p, e2 at q (q = 0: no
\* second marked entry), fillers elsewhere.
Conversation(n, i, p, e1, q, e2) ==
    [k \in 1..n |-> IF k = i THEN MediaEntry
                    ELSE IF k = p THEN e1
                    ELSE IF k = q THEN e2
                    ELSE Filler]

\* The second marked entry sits opposite the first one (same offset on the
\* other side of the media entry) or next to that position, or is absent.
SecondPositions(n, i, p) ==
    {0} \cup (({2 * i - p - 1, 2 * i - p, 2 * i - p + 1} \cap (1..n)) \ {i, p})

ListLengths == {n \in 1..MaxLen : n <= ShortLen \/ n >= MaxLen - 1}

\* The download part does not take part in SpecText.
DownloadOff ==
    /\ feed = "chat"
    /\ media_items = << >>
    /\ disk = {}
    /\ disk_at_start = {}
    /\ pc = "off"
    /\ run_no = 0
    /\ date_counts = << >>
    /\ filenames = << >>
    /\ already_exist = 0
    /\ to_download = << >>
    /\ future = << >>
    /\ attempts = << >>
    /\ handled = {}
    /\ newly_downloaded = << >>
    /\ written = {}

InitText ==
    /\ \E n \in ListLengths : \E i \in 1..n :
         \/ /\ items = Conversation(n, i, 0, Filler, 0, Filler)
            /\ current_idx = i
         \/ \E p \in (1..n) \ {i} : \E e1 \in EntryKinds("first") :
            \E q \in SecondPositions(n, i, p) :
              /\ items = Conversation(n, i, p, e1, q,
                                      Entry(MediaSender, "txt", "second", BaseDate + 60))
              /\ current_idx = i
    /\ tpc = "ready"
    /\ assoc_text = None
    /\ scan_hit = 0
    /\ scan_read = {}
    /\ DownloadOff
    /\ RunOff /\ SanOff /\ SyncOff /\ ConfigOff /\ MoreOff

\* parse_messages, lines 99-107: the search for the entry at current_idx
FindAssociatedText ==
    /\ tpc = "ready"
    /\ LET r == find_associated_text(items, current_idx,
                                     items[current_idx].sender_id,
                                     items[current_idx].date_sent)
       IN  /\ assoc_text' = r.text
           /\ scan_hit' = r.hit
           /\ scan_read' = r.read
    /\ tpc' = "done"
    /\ UNCHANGED <<items, current_idx>>
    /\ UNCHANGED <<dlVars, extVars>>

NextText == FindAssociatedText

SpecText == InitText /\ [][NextText]_vars

----------------------------------------------------------------------------
\* Strings as sequences of characters

\* s.replace(old, new) for one-character strings old and new
ReplaceChar(s, old, new) ==
    [i \in 1..Len(s) |-> IF s[i] = old THEN new ELSE s[i]]

\* s.replace(old, '') for a one-character string old
RemoveChar(s, old) == SelectSeq(s, LAMBDA c : c # old)

DigitChars == <<"0", "1", "2", "3", "4", "5", "6", "7", "8", "9">>

\* str(n) for n >= 0
RECURSIVE Decimal(_)
Decimal(n) ==
    IF n < 10 THEN <<DigitChars[n + 1]>>
    ELSE Decimal(n \div 10) \o <<DigitChars[(n % 10) + 1]>>

\* The same format without the zero padding, f"{count}"
Format_Unpadded(n) == Decimal(n)

\* f"{count:02d}": at least two digits, padded with zeros on the left
Format02d(n) ==
    IF Len(Decimal(n)) < 2 THEN <<"0">> \o Decimal(n) ELSE Decimal(n)

\* Code points of the characters the inputs are made of
Ord(c) ==
    CASE c = " " -> 32 [] c = "-" -> 45 [] c = "." -> 46
      [] c = "0" -> 48 [] c = "1" -> 49 [] c = "2" -> 50 [] c = "3" -> 51
      [] c = "4" -> 52 [] c = "5" -> 53 [] c = "6" -> 54 [] c = "7" -> 55
      [] c = "8" -> 56 [] c = "9" -> 57 [] c = ":" -> 58
      [] c = "K" -> 75 [] c = "M" -> 77 [] c = "T" -> 84 [] c = "Z" -> 90
      [] c = "_" -> 95 [] c = "s" -> 115

\* a <= b for Python strings (lexicographic by code point)
RECURSIVE StrLeq(_, _)
StrLeq(a, b) ==
    IF a = << >> THEN TRUE
    ELSE IF b = << >> THEN FALSE
    ELSE IF Head(a) = Head(b) THEN StrLeq(Tail(a), Tail(b))
    ELSE Ord(Head(a)) < Ord(Head(b))

----------------------------------------------------------------------------
\* scripts/download_chat.py and scripts/download_home.py: generate_filename

UnknownDate == <<"u", "n", "k", "n", "o", "w", "n", "_", "d", "a", "t", "e">>

\* chat: item['sender'].replace(' ', '_').replace('.', '')
\* home: item["child"].replace(" ", "_")
OwnerPart(f, owner) ==
    IF f = "chat"
    THEN RemoveChar(ReplaceChar(owner, " ", "_"), ".")
    ELSE ReplaceChar(owner, " ", "_")

\* chat: date_str.replace('T', '_').replace('Z', '').replace(':', '-')
\* home: date_str.replace(" ", "_").replace(":", "-")
\* both: 'unknown_date' for an empty date_str
DatePart(f, date_str) ==
    IF date_str = << >> THEN UnknownDate
    ELSE IF f = "chat"
    THEN ReplaceChar(RemoveChar(ReplaceChar(date_str, "T", "_"), "Z"), ":", "-")
    ELSE ReplaceChar(ReplaceChar(date_str, " ", "_"), ":", "-")

\* base_key = f"{sender}_{date_part}"
BaseKey(f, item) == OwnerPart(f, item.owner) \o <<"_">> \o DatePart(f, item.date)

\* defaultdict(int)
EmptyCounts == [k \in {} |-> 0]
CountOf(dc, key) == IF key \in DOMAIN dc THEN dc[key] ELSE 0

\* date_counts[base_key] += 1
Increment(dc, key) ==
    [k \in DOMAIN dc \cup {key} |-> IF k = key THEN CountOf(dc, key) + 1 ELSE dc[k]]

\* The filename and the updated counter map
generate_filename(f, item, dc) ==
    LET key   == BaseKey(f, item)
        dc2   == Increment(dc, key)
        count == dc2[key]
    IN  [filename |->
            IF count > 1
            THEN BaseKey(f, item) \o <<"_">> \o Format02d(count) \o <<".">> \o item.ftype
            ELSE BaseKey(f, item) \o <<".">> \o item.ftype,
         date_counts |-> dc2]

----------------------------------------------------------------------------
\* Inputs of download_media

MaxItems == 3       \* longest media_items list
MaxRuns == 2        \* download_media calls on the same directory and input
parallel == 2       \* width of the worker pool (the code's default is 50)

Jpg == <<"j", "p", "g">>
Mp4 == <<"m", "p", "4">>

\* "2026-01-12", the same day with an hour appended, and no timestamp
Day == <<"2", "0", "2", "6", "-", "0", "1", "-", "1", "2">>

\* Owner labels: "Ms. T", "Ms T" and "K" (chat), "Ms T", "Ms_T" and "K" (home)
OwnerLabels(f) ==
    IF f = "chat"
    THEN {<<"M", "s", ".", " ", "T">>, <<"M", "s", " ", "T">>, <<"K">>}
    ELSE {<<"M", "s", " ", "T">>, <<"M", "s", "_", "T">>, <<"K">>}

\* created_at (chat, '2026-01-12T22:18:37Z') and createAtUtc (home,
\* '2026-01-12 21:19:51') values, cut to the day and the hour
Timestamps(f) ==
    IF f = "chat"
    THEN {<< >>, Day, Day \o <<"T", "0", "2">>}
    ELSE {<< >>, Day, Day \o <<" ", "0", "2">>}

MediaItem(o, d, t) == [owner |-> o, date |-> d, ftype |-> t]

\* A photo of every owner and timestamp, and a video
ItemUniverse(f) ==
    {MediaItem(o, d, Jpg) : o \in OwnerLabels(f), d \in Timestamps(f)}
    \cup {MediaItem(<<"M", "s", " ", "T">>, Day, Mp4)}

\* The items of the batches that go through the worker pool: photos of one
\* owner, taken on the day or with the hour in the timestamp
BatchUniverse(f) ==
    {MediaItem(<<"M", "s", " ", "T">>, d, Jpg) : d \in Timestamps(f) \ {<< >>}}

\* media_items.sort(key=lambda x: x['date_raw']) / x["date"]: the lists that
\* parse_messages and parse_notes return are in non-decreasing date order
SortedByDate(ms) ==
    \A k \in 1..(Len(ms) - 1) : StrLeq(ms[k].date, ms[k + 1].date)

MediaLists(universe) ==
    UNION {{ms \in [1..n -> universe] : SortedByDate(ms)} : n \in 0..MaxItems}

----------------------------------------------------------------------------
\* scripts/download_chat.py and scripts/download_home.py: download_media
\* (filepath = os.path.join(output_dir, filename): with one output_dir the
\* filename stands for the path)

\* The locals of a fresh download_media call
CallStart ==
    /\ pc' = "first_pass"
    /\ date_counts' = EmptyCounts
    /\ filenames' = << >>
    /\ already_exist' = 0
    /\ to_download' = << >>
    /\ future' = EmptyCounts
    /\ attempts' = [k \in 1..Len(media_items) |-> 0]
    /\ handled' = {}
    /\ newly_downloaded' = << >>
    /\ written' = {}

\* The state after construction, for inputs drawn from universe
InitWith(universe) ==
    /\ items = << >>
    /\ current_idx = 0
    /\ tpc = "off"
    /\ assoc_text = None
    /\ scan_hit = 0
    /\ scan_read = {}
    /\ feed \in {"chat", "home"}
    /\ media_items \in MediaLists(universe[feed])
    /\ disk = {}
    /\ disk_at_start = {}
    /\ run_no = 1
    /\ pc = "first_pass"
    /\ date_counts = EmptyCounts
    /\ filenames = << >>
    /\ already_exist = 0
    /\ to_download = << >>
    /\ future = EmptyCounts
    /\ attempts = [k \in 1..Len(media_items) |-> 0]
    /\ handled = {}
    /\ newly_downloaded = << >>
    /\ written = {}
    /\ RunOff /\ SanOff /\ SyncOff /\ ConfigOff /\ MoreOff

Init == InitWith([f \in {"chat", "home"} |-> BatchUniverse(f)])

InitNames == InitWith([f \in {"chat", "home"} |-> ItemUniverse(f)])

\* The test inverted: an item is queued when its file exists
Exists_Inverted(d, name) == name \notin d

\* No test at all: every item is queued
Exists_Never(d, name) == FALSE

\* os.path.exists(filepath)
Exists(d, name) == name \in d

\* One iteration of "for item in media_items" (first pass)
FirstPassStep ==
    /\ pc = "first_pass"
    /\ Len(filenames) < Len(media_items)
    /\ LET k == Len(filenames) + 1
           g == generate_filename(feed, media_items[k], date_counts)
       IN  /\ date_counts' = g.date_counts
           /\ filenames' = Append(filenames, g.filename)
           /\ IF Exists(disk, g.filename)
              THEN /\ already_exist' = already_exist + 1
                   /\ UNCHANGED to_download
              ELSE /\ to_download' = Append(to_download, k)
                   /\ UNCHANGED already_exist
    /\ UNCHANGED <<pc, future, attempts, handled, newly_downloaded, written>>
    /\ UNCHANGED <<feed, media_items, disk, disk_at_start, run_no>>
    /\ UNCHANGED <<textVars, extVars>>

\* if not to_download: return []
ReturnNothing ==
    /\ pc = "first_pass"
    /\ Len(filenames) = Len(media_items)
    /\ to_download = << >>
    /\ pc' = "returned"
    /\ UNCHANGED <<date_counts, filenames, already_exist, to_download, future,
                   attempts, handled, newly_downloaded, written>>
    /\ UNCHANGED <<feed, media_items, disk, disk_at_start, run_no>>
    /\ UNCHANGED <<textVars, extVars>>

\* futures = {executor.submit(download_one, (item, filepath)): filename ...}
Submit ==
    /\ pc = "first_pass"
    /\ Len(filenames) = Len(media_items)
    /\ to_download # << >>
    /\ future' = [k \in {to_download[n] : n \in 1..Len(to_download)} |-> "queued"]
    /\ pc' = "pool"
    /\ UNCHANGED <<date_counts, filenames, already_exist, to_download,
                   attempts, handled, newly_downloaded, written>>
    /\ UNCHANGED <<feed, media_items, disk, disk_at_start, run_no>>
    /\ UNCHANGED <<textVars, extVars>>

Tasks == DOMAIN future
InState(st) == {k \in Tasks : future[k] = st}

\* The items the first pass appended to to_download
ToDownloadSet == {to_download[n] : n \in 1..Len(to_download)}

\* Fetches that hold a worker thread
InFlight == InState("running") \cup InState("stalled")

\* A pool that starts every submitted task at once
WorkerAvailable_Unbounded == TRUE

\* A pool that keeps one of its workers unused
WorkerAvailable_OneLess == Cardinality(InFlight) < parallel - 1

\* A worker thread is idle or can still be created (max_workers=parallel)
WorkerAvailable == Cardinality(InFlight) < parallel

\* The work queue is first in, first out: the next task is the earliest
\* submitted one that has not started
NextQueued == CHOOSE k \in InState("queued") : \A j \in InState("queued") : k <= j

\* A worker takes the next task and calls download_one -> urlretrieve
StartFetch ==
    /\ pc = "pool"
    /\ InState("queued") # {}
    /\ WorkerAvailable
    /\ LET k == NextQueued
       IN  /\ future' = [future EXCEPT ![k] = "running"]
           /\ attempts' = [attempts EXCEPT ![k] = @ + 1]
    /\ UNCHANGED <<pc, date_counts, filenames, already_exist, to_download,
                   handled, newly_downloaded, written>>
    /\ UNCHANGED <<feed, media_items, disk, disk_at_start, run_no>>
    /\ UNCHANGED <<textVars, extVars>>

\* urlretrieve returned: the file is complete, download_one returns error None
FetchOk(k) ==
    /\ pc = "pool"
    /\ k \in InState("running")
    /\ future' = [future EXCEPT ![k] = "ok"]
    /\ disk' = disk \cup {filenames[k]}
    /\ written' = written \cup {filenames[k]}
    /\ fetched_ok' = fetched_ok \cup {filenames[k]}
    /\ UNCHANGED <<pc, date_counts, filenames, already_exist, to_download,
                   attempts, handled, newly_downloaded>>
    /\ UNCHANGED <<feed, media_items, disk_at_start, run_no>>
    /\ UNCHANGED <<textVars, runVars, sanVars, syncVars, cfgVars, dlrVars, toolVars,
                   feedVars>>

\* urlretrieve raised: download_one catches it and returns str(e). The
\* exception comes before the target file is opened (wrote = FALSE) or while
\* the blocks are being written, which leaves an incomplete file.
FetchError(k, wrote) ==
    /\ pc = "pool"
    /\ k \in InState("running")
    /\ future' = [future EXCEPT ![k] = "error"]
    /\ IF wrote
       THEN /\ disk' = disk \cup {filenames[k]}
            /\ written' = written \cup {filenames[k]}
       ELSE UNCHANGED <<disk, written>>
    /\ UNCHANGED <<pc, date_counts, filenames, already_exist, to_download,
                   attempts, handled, newly_downloaded>>
    /\ UNCHANGED <<feed, media_items, disk_at_start, run_no>>
    /\ UNCHANGED <<textVars, extVars>>

\* The server stops answering: no timeout is set, urlretrieve never returns
Stall(k) ==
    /\ pc = "pool"
    /\ k \in InState("running")
    /\ future' = [future EXCEPT ![k] = "stalled"]
    /\ UNCHANGED <<pc, date_counts, filenames, already_exist, to_download,
                   attempts, handled, newly_downloaded, written>>
    /\ UNCHANGED <<feed, media_items, disk, disk_at_start, run_no>>
    /\ UNCHANGED <<textVars, extVars>>

\* A loop body that appends whatever the outcome
Collected_Always(nd, k, outcome) == Append(nd, k)

\* The result list after the loop body handled a future with this outcome
Collected(nd, k, outcome) == IF outcome = "ok" THEN Append(nd, k) ELSE nd

\* One iteration of "for i, future in enumerate(as_completed(futures))"
Collect(k) ==
    /\ pc = "pool"
    /\ k \in (InState("ok") \cup InState("error")) \ handled
    /\ handled' = handled \cup {k}
    /\ newly_downloaded' = Collected(newly_downloaded, k, future[k])
    /\ UNCHANGED <<pc, date_counts, filenames, already_exist, to_download,
                   future, attempts, written>>
    /\ UNCHANGED <<feed, media_items, disk, disk_at_start, run_no>>
    /\ UNCHANGED <<textVars, extVars>>

\* A loop that ends as soon as one future has been handled
AllHandled_AfterFirst == handled # {}

\* as_completed is exhausted when every future has been yielded; leaving the
\* with block joins the workers
AllHandled == handled = Tasks

\* return newly_downloaded
Return ==
    /\ pc = "pool"
    /\ AllHandled
    /\ pc' = "returned"
    /\ UNCHANGED <<date_counts, filenames, already_exist, to_download, future,
                   attempts, handled, newly_downloaded, written>>
    /\ UNCHANGED <<feed, media_items, disk, disk_at_start, run_no>>
    /\ UNCHANGED <<textVars, extVars>>

\* The downloader is run again on the same input and output directory
Rerun ==
    /\ pc = "returned"
    /\ run_no < MaxRuns
    /\ run_no' = run_no + 1
    /\ CallStart
    /\ disk_at_start' = disk
    /\ UNCHANGED <<feed, media_items, disk>>
    /\ UNCHANGED <<textVars, extVars>>

Next ==
    \/ FirstPassStep
    \/ ReturnNothing
    \/ Submit
    \/ StartFetch
    \/ \E k \in 1..MaxItems : FetchOk(k)
    \/ \E k \in 1..MaxItems : \E wrote \in BOOLEAN : FetchError(k, wrote)
    \/ \E k \in 1..MaxItems : Stall(k)
    \/ \E k \in 1..MaxItems : Collect(k)
    \/ Return
    \/ Rerun

Spec == Init /\ [][Next]_vars

\* urlretrieve of a fetch that is not stalled comes to an end
Finish(k) == FetchOk(k) \/ \E wrote \in BOOLEAN : FetchError(k, wrote)

\* The worker threads of the pool keep running: a free worker takes the next
\* queued task, and a fetch that is not stalled ends.
Fairness ==
    /\ WF_vars(StartFetch)
    /\ \A k \in 1..MaxItems : WF_vars(Finish(k))

\* One call of download_media: the batch from the first pass to the return
NextBatch ==
    \/ FirstPassStep
    \/ ReturnNothing
    \/ Submit
    \/ StartFetch
    \/ \E k \in 1..MaxItems : FetchOk(k)
    \/ \E k \in 1..MaxItems : \E wrote \in BOOLEAN : FetchError(k, wrote)
    \/ \E k \in 1..MaxItems : Stall(k)
    \/ \E k \in 1..MaxItems : Collect(k)
    \/ Return

FairSpec == Init /\ [][NextBatch]_vars /\ Fairness

\* The first pass of download_media alone, on every kind of item
NextNames ==
    \/ FirstPassStep
    \/ ReturnNothing
    \/ Submit

SpecNames == InitNames /\ [][NextNames]_vars

----------------------------------------------------------------------------
\* scripts/download_chat.py: is_thumbnail, get_file_type and the filters of
\* parse_messages

\* str.endswith(suffix)
EndsWith(s, suffix) ==
    /\ Len(s) >= Len(suffix)
    /\ SubSeq(s, Len(s) - Len(suffix) + 1, Len(s)) = suffix

HexDigits == {"0", "1", "2", "3", "4", "5", "6", "7", "8", "9",
              "a", "b", "c", "d", "e", "f"}

DotPng == <<".", "p", "n", "g">>
DotMp4 == <<".", "m", "p", "4">>
Bin == <<"b", "i", "n">>

\* [0-9a-f]jpg as the last four characters
HexJpgAtEnd(s) ==
    /\ Len(s) >= 4
    /\ s[Len(s) - 3] \in HexDigits
    /\ SubSeq(s, Len(s) - 2, Len(s)) = Jpg

\* bool(re.search(r'[0-9a-f]jpg$', url)): '$' matches at the end of the
\* string and just before a newline that ends the string
is_thumbnail(url) ==
    \/ HexJpgAtEnd(url)
    \/ /\ Len(url) >= 1
       /\ url[Len(url)] = "\n"
       /\ HexJpgAtEnd(SubSeq(url, 1, Len(url) - 1))

\* A type taken literally from the URL extension
get_file_type_Literal(url) ==
    IF EndsWith(url, DotMp4) THEN Mp4
    ELSE IF EndsWith(url, DotPng) THEN <<"p", "n", "g">>
    ELSE Bin

get_file_type(url) ==
    IF EndsWith(url, DotMp4) THEN Mp4
    ELSE IF EndsWith(url, DotPng) THEN Jpg
    ELSE Bin

\* No test on the extension
HasMediaExtension_Any(url) == TRUE

\* url.endswith('.png') or url.endswith('.mp4')
HasMediaExtension(url) == EndsWith(url, DotPng) \/ EndsWith(url, DotMp4)

\* The three tests an attachment passes before it becomes a media item
KeepsAttachment(url) ==
    /\ url # << >>
    /\ ~is_thumbnail(url)
    /\ HasMediaExtension(url)

----------------------------------------------------------------------------
\* Titles (both feeds)

TITLE_MAX == 100
TITLE_KEEP == 97

Ellipsis == <<".", ".", ".">>

\* A cut that keeps TITLE_MAX characters before the ellipsis
TruncateTitle_KeepMax(title) ==
    IF Len(title) > TITLE_MAX
    THEN SubSeq(title, 1, TITLE_MAX) \o Ellipsis
    ELSE title

\* if len(title) > 100: title = title[:97] + '...'
TruncateTitle(title) ==
    IF Len(title) > TITLE_MAX
    THEN SubSeq(title, 1, TITLE_KEEP) \o Ellipsis
    ELSE title

VideoFrom == <<"V", "i", "d", "e", "o", " ", "f", "r", "o", "m", " ">>
PhotoFrom == <<"P", "h", "o", "t", "o", " ", "f", "r", "o", "m", " ">>

\* Python truthiness of the value find_associated_text returned
Truthy(opt) == opt # None /\ opt[1] # << >>

\* parse_messages, "Determine title", before the truncation
ChatSourceTitle(entry, url) ==
    IF Truthy(entry.associated_text) THEN entry.associated_text[1]
    ELSE IF get_file_type(url) = Mp4 THEN VideoFrom \o entry.user_name
    ELSE PhotoFrom \o entry.user_name

Whitespace == {" ", "\n", "\t"}

\* Smallest and largest element of a non-empty set of indices
MinOf(S) == CHOOSE i \in S : \A j \in S : i <= j
MaxOf(S) == CHOOSE i \in S : \A j \in S : i >= j

\* Index of the first character of s, from position k on, that is in chars,
\* Len(s) + 1 if there is none
FirstIn(s, chars, k) ==
    LET hits == {i \in k..Len(s) : s[i] \in chars}
    IN  IF hits = {} THEN Len(s) + 1 ELSE MinOf(hits)

\* Index of the first character from position k on that is not in chars
FirstNotIn(s, chars, k) ==
    LET hits == {i \in k..Len(s) : s[i] \notin chars}
    IN  IF hits = {} THEN Len(s) + 1 ELSE MinOf(hits)

\* Index of the last character up to position k that is not in chars, 0 if none
LastNotIn(s, chars, k) ==
    LET hits == {i \in 1..k : s[i] \notin chars}
    IN  IF hits = {} THEN 0 ELSE MaxOf(hits)

\* str.strip(chars)
Strip(s, chars) ==
    SubSeq(s, FirstNotIn(s, chars, 1), LastNotIn(s, chars, Len(s)))

\* payload.split(".")[0]
FirstSentence(s) == SubSeq(s, 1, FirstIn(s, {"."}, 1) - 1)

\* parse_notes: payload = note.get("payload", "") or "";
\* title = payload.split(".")[0].strip() if payload else ""
HomeSourceTitle(note) ==
    IF Truthy(note.payload)
    THEN Strip(FirstSentence(note.payload[1]), Whitespace)
    ELSE << >>

----------------------------------------------------------------------------
\* parse_messages and parse_notes. A media item is the record
\* [url, ftype, date, owner, title, dialog_name, src]: ftype is 'file_type'
\* (chat) or "fileType" (home), date is 'date_raw' or "date", owner is
\* 'sender' or "child", and src = <<entry, attachment>> stands for
\* 'message_id' and 'attachment_idx', the place of the item in the input.

Unknown == <<"U", "n", "k", "n", "o", "w", "n">>

ChatItem(entry, idx, i) ==
    [url |-> entry.attachments[i],
     ftype |-> get_file_type(entry.attachments[i]),
     date |-> entry.created_at,
     owner |-> entry.user_name,
     title |-> TruncateTitle(ChatSourceTitle(entry, entry.attachments[i])),
     dialog_name |-> entry.dialog_name,
     src |-> <<idx, i>>]

\* "for i, attachment in enumerate(attachments)" up to attachment i
RECURSIVE ChatAttachments(_, _, _)
ChatAttachments(entry, idx, i) ==
    IF i = 0 THEN << >>
    ELSE IF KeepsAttachment(entry.attachments[i])
    THEN Append(ChatAttachments(entry, idx, i - 1), ChatItem(entry, idx, i))
    ELSE ChatAttachments(entry, idx, i - 1)

\* "for idx, item in enumerate(items)" up to entry n
RECURSIVE ExtractChat(_, _)
ExtractChat(its, n) ==
    IF n = 0 THEN << >>
    ELSE ExtractChat(its, n - 1)
         \o ChatAttachments(its[n], n, Len(its[n].attachments))

HomeItem(note, idx, i) ==
    [url |-> note.media[i].public_url,
     ftype |-> note.media[i].fileType,
     date |-> note.media[i].createAtUtc,
     owner |-> IF note.children # << >> THEN note.children[1] ELSE Unknown,
     title |-> TruncateTitle(HomeSourceTitle(note)),
     dialog_name |-> << >>,
     src |-> <<idx, i>>]

\* "for media in note.get("media", [])" up to media i
RECURSIVE HomeMedia(_, _, _)
HomeMedia(note, idx, i) ==
    IF i = 0 THEN << >>
    ELSE IF note.media[i].public_url # << >>
    THEN Append(HomeMedia(note, idx, i - 1), HomeItem(note, idx, i))
    ELSE HomeMedia(note, idx, i - 1)

\* "for note in notes" up to note n
RECURSIVE ExtractHome(_, _)
ExtractHome(notes, n) ==
    IF n = 0 THEN << >>
    ELSE ExtractHome(notes, n - 1) \o HomeMedia(notes[n], n, Len(notes[n].media))

\* a < b on strings
StrLess(a, b) == ~StrLeq(b, a)

\* Position of an item in a sorted list when equal keys are not kept in order
RECURSIVE InsertAt_BeforeEqual(_, _, _)
InsertAt_BeforeEqual(sorted, d, k) ==
    IF k > Len(sorted) THEN k
    ELSE IF StrLeq(d.date, sorted[k].date) THEN k
    ELSE InsertAt_BeforeEqual(sorted, d, k + 1)

\* list.sort is stable: an item goes behind every item whose key is not
\* greater than its own, so behind the earlier items with an equal key
RECURSIVE InsertAt(_, _, _)
InsertAt(sorted, d, k) ==
    IF k > Len(sorted) THEN k
    ELSE IF StrLess(d.date, sorted[k].date) THEN k
    ELSE InsertAt(sorted, d, k + 1)

InsertByDate(sorted, d) ==
    LET k == InsertAt(sorted, d, 1)
    IN  SubSeq(sorted, 1, k - 1) \o <<d>> \o SubSeq(sorted, k, Len(sorted))

\* media_items.sort(key=lambda x: x['date_raw']) / x["date"]
RECURSIVE SortByDate(_, _)
SortByDate(ms, n) ==
    IF n = 0 THEN << >>
    ELSE InsertByDate(SortByDate(ms, n - 1), ms[n])

parse_messages(its) ==
    LET ms == ExtractChat(its, Len(its)) IN SortByDate(ms, Len(ms))

parse_notes(notes) ==
    LET ms == ExtractHome(notes, Len(notes)) IN SortByDate(ms, Len(ms))

----------------------------------------------------------------------------
\* scripts/download_chat.py: sanitize_folder_name

\* \w on the characters of the model: letters, digits and the underscore
WordChars ==
    {"a", "b", "c", "d", "e", "f", "g", "h", "i", "j", "k", "l", "m", "n",
     "o", "p", "q", "r", "s", "t", "u", "v", "w", "x", "y", "z",
     "A", "B", "C", "D", "E", "F", "G", "H", "I", "J", "K", "L", "M", "N",
     "O", "P", "Q", "R", "S", "T", "U", "V", "W", "X", "Y", "Z",
     "0", "1", "2", "3", "4", "5", "6", "7", "8", "9", "_"}

\* The characters that [^\w\-] does not match
KeptChar(c) == c \in WordChars \/ c = "-"

\* re.sub(r'[^\w\-]', '_', name)
ReplaceSpecial(name) ==
    [k \in 1..Len(name) |-> IF KeptChar(name[k]) THEN name[k] ELSE "_"]

\* re.sub(r'_+', '_', safe), on the first n characters
RECURSIVE CollapseUnderscores(_, _)
CollapseUnderscores(s, n) ==
    IF n = 0 THEN << >>
    ELSE IF s[n] = "_" /\ n > 1 /\ s[n - 1] = "_"
    THEN CollapseUnderscores(s, n - 1)
    ELSE Append(CollapseUnderscores(s, n - 1), s[n])

\* The function without its last step
sanitize_folder_name_NoStrip(name) ==
    LET safe == ReplaceSpecial(name) IN CollapseUnderscores(safe, Len(safe))

sanitize_folder_name(name) ==
    LET safe == ReplaceSpecial(name)
    IN  Strip(CollapseUnderscores(safe, Len(safe)), {"_"})

----------------------------------------------------------------------------
\* run() of scripts/download_chat.py and scripts/download_home.py

\* by_dialog: the dialog names in the order of their first item, each with
\* the indices of its items in media_items order
RECURSIVE DialogsOf(_, _)
DialogsOf(ms, n) ==
    IF n = 0 THEN << >>
    ELSE LET before == DialogsOf(ms, n - 1)
         IN  IF \E b \in 1..Len(before) : before[b] = ms[n].dialog_name
             THEN before
             ELSE Append(before, ms[n].dialog_name)

ItemsOfDialog(ms, name) ==
    SelectSeq([k \in 1..Len(ms) |-> k], LAMBDA k : ms[k].dialog_name = name)

\* The batches of a run: one per dialog (chat), or all items at once (home)
Batches(f, ms) ==
    IF f = "chat"
    THEN LET names == DialogsOf(ms, Len(ms))
         IN  [b \in 1..Len(names) |->
                 [dialog_name |-> names[b], items |-> ItemsOfDialog(ms, names[b])]]
    ELSE << [dialog_name |-> << >>, items |-> [k \in 1..Len(ms) |-> k]] >>

\* kid_path below output_dir (chat), output_dir itself (home): the folder
\* name stands for the directory
FolderOf(f, batch) ==
    IF f = "chat" THEN sanitize_folder_name(batch.dialog_name) ELSE << >>

DirContent(d, folder) == IF folder \in DOMAIN d THEN d[folder] ELSE {}

\* The date tags set_metadata writes depend on file_type
DateTags(ftype) ==
    IF ftype = Jpg THEN "photo" ELSE IF ftype = Mp4 THEN "video" ELSE "none"

\* run() up to the loop over the dialogs: check_exiftool and its warning,
\* parse, "No media found", group by dialog
RunStart ==
    /\ rpc = "start"
    /\ warnings' = IF has_exiftool THEN 0 ELSE 1
    /\ LET ms == IF feed = "chat" THEN parse_messages(raw) ELSE parse_notes(raw)
       IN  /\ descriptors' = ms
           /\ IF ms = << >>
              THEN /\ run_result' = Some(<< >>)
                   /\ by_dialog' = << >>
                   /\ rpc' = "done"
              ELSE /\ run_result' = None
                   /\ by_dialog' = Batches(feed, ms)
                   /\ rpc' = "batches"
    /\ batch_no' = 1
    /\ UNCHANGED <<raw, has_exiftool, batch_items, dirs, all_downloaded,
                   tag_calls, tag_failed>>
    /\ UNCHANGED <<textVars, dlVars, sanVars, syncVars, cfgVars, moreVars>>

\* download_media(items, kid_path) / download_media(media_items, output_dir)
\* is called: its arguments and the locals of a fresh call
StartBatch ==
    /\ rpc = "batches"
    /\ pc = "off"
    /\ batch_no <= Len(by_dialog)
    /\ LET b == by_dialog[batch_no]
           its == [k \in 1..Len(b.items) |->
                      MediaItem(descriptors[b.items[k]].owner,
                                descriptors[b.items[k]].date,
                                descriptors[b.items[k]].ftype)]
       IN  /\ batch_items' = b.items
           /\ media_items' = its
           /\ attempts' = [k \in 1..Len(its) |-> 0]
           /\ disk' = DirContent(dirs, FolderOf(feed, b))
           /\ disk_at_start' = DirContent(dirs, FolderOf(feed, b))
    /\ run_no' = batch_no
    /\ pc' = "first_pass"
    /\ date_counts' = EmptyCounts
    /\ filenames' = << >>
    /\ already_exist' = 0
    /\ to_download' = << >>
    /\ future' = EmptyCounts
    /\ handled' = {}
    /\ newly_downloaded' = << >>
    /\ written' = {}
    /\ UNCHANGED feed
    /\ UNCHANGED <<raw, has_exiftool, descriptors, by_dialog, batch_no, dirs,
                   all_downloaded, tag_calls, tag_failed, warnings, run_result,
                   rpc>>
    /\ UNCHANGED <<textVars, sanVars, syncVars, cfgVars, moreVars>>

\* The tuple download_one returns for item k of the batch, as far as the run
\* uses it: filepath and file_type, and the item it belongs to
ResultTuple(k) ==
    [path |-> <<FolderOf(feed, by_dialog[batch_no]), filenames[k]>>,
     ftype |-> media_items[k].ftype,
     item |-> batch_items[k]]

\* download_media returned: all_downloaded.extend(downloaded), next dialog
EndBatch ==
    /\ rpc = "batches"
    /\ pc = "returned"
    /\ all_downloaded' =
           all_downloaded \o [n \in 1..Len(newly_downloaded) |->
                                 ResultTuple(newly_downloaded[n])]
    /\ LET folder == FolderOf(feed, by_dialog[batch_no])
       IN  dirs' = [x \in DOMAIN dirs \cup {folder} |->
                       IF x = folder THEN disk ELSE dirs[x]]
    /\ batch_no' = batch_no + 1
    /\ rpc' = IF batch_no = Len(by_dialog) THEN "tagging" ELSE "batches"
    /\ pc' = "off"
    /\ UNCHANGED <<feed, media_items, disk, disk_at_start, run_no, date_counts,
                   filenames, already_exist, to_download, future, attempts,
                   handled, newly_downloaded, written>>
    /\ UNCHANGED <<raw, has_exiftool, descriptors, by_dialog, batch_items,
                   tag_calls, tag_failed, warnings, run_result>>
    /\ UNCHANGED <<textVars, sanVars, syncVars, cfgVars, moreVars>>

\* A tagging step that goes through the files whether the tool exists or not
SkipsTagging_Never(available) == FALSE

\* set_metadata: if not has_exiftool: print warning; return
SkipsTagging(available) == ~available

\* set_metadata(all_downloaded, has_exiftool): one subprocess.run per tuple;
\* its exit status is not looked at, so an invocation that fails (failed) is
\* followed by the next one
SetMetadata ==
    /\ rpc = "tagging"
    /\ IF SkipsTagging(has_exiftool)
       THEN /\ warnings' = warnings + 1
            /\ tag_calls' = << >>
            /\ tag_failed' = {}
       ELSE /\ warnings' = warnings
            /\ tag_calls' = [n \in 1..Len(all_downloaded) |->
                                [path |-> all_downloaded[n].path,
                                 tags |-> DateTags(all_downloaded[n].ftype),
                                 item |-> all_downloaded[n].item]]
            /\ \E failed \in SUBSET (1..Len(all_downloaded)) :
                   tag_failed' = failed
    /\ rpc' = "tagged"
    /\ UNCHANGED <<raw, has_exiftool, descriptors, by_dialog, batch_no,
                   batch_items, dirs, all_downloaded, run_result>>
    /\ UNCHANGED <<textVars, dlVars, sanVars, syncVars, cfgVars, moreVars>>

\* return [item[0] for item in all_downloaded]
ReturnRun ==
    /\ rpc = "tagged"
    /\ run_result' = Some([n \in 1..Len(all_downloaded) |-> all_downloaded[n].path])
    /\ rpc' = "done"
    /\ UNCHANGED <<raw, has_exiftool, descriptors, by_dialog, batch_no,
                   batch_items, dirs, all_downloaded, tag_calls, tag_failed,
                   warnings>>
    /\ UNCHANGED <<textVars, dlVars, sanVars, syncVars, cfgVars, moreVars>>

----------------------------------------------------------------------------
\* Inputs of a run: the content of message.json and notes.json

MaxEntries == 3         \* most messages / notes in an input
MaxAttachments == 2     \* most attachments of a message, media of a note

PngUrl == <<"a", ".", "p", "n", "g">>
Mp4Url == <<"a", ".", "m", "p", "4">>

\* URLs that end in .png, .mp4, a thumbnail suffix (hex digit + jpg, also
\* with a newline behind it), .jpg, another extension, jpg behind a
\* character that is no hex digit, and the empty URL
UrlKinds ==
    {PngUrl, Mp4Url,
     <<"a", "1", "j", "p", "g">>,
     <<"a", "1", "j", "p", "g", "\n">>,
     <<"a", ".", "j", "p", "g">>,
     <<"a", ".", "g", "i", "f">>,
     <<"a", "g", "j", "p", "g">>,
     << >>}

SeqsUpTo(S, n) == UNION {[1..m -> S] : m \in 0..n}

Letters10 == <<"a", "b", "c", "d", "e", "f", "g", "h", "i", "j">>

\* A text of n characters in which the position of a character shows
LongText(n) == [i \in 1..n |-> Letters10[(i % 10) + 1]]

Hi == <<"H", "i">>
MsT == <<"M", "s", " ", "T">>
KidK == <<"K">>

\* What find_associated_text can return around the title limit
AssociatedTexts ==
    {None, Some(Hi), Some(LongText(TITLE_MAX - 1)), Some(LongText(TITLE_MAX)),
     Some(LongText(TITLE_MAX + 1)), Some(LongText(TITLE_MAX + 3))}

\* user_name: short, and long enough for "Photo from ..." to pass the limit
UserNames == {KidK, LongText(TITLE_MAX - 10)}

\* payload of a note: absent, empty, one or two sentences, blanks around the
\* first sentence, and first sentences around the title limit
Payloads ==
    {None, Some(<< >>), Some(Hi), Some(Hi \o <<".", " ", "x">>),
     Some(<<" ">> \o Hi \o <<" ", ".">>), Some(<<".", "x">>),
     Some(LongText(TITLE_MAX)), Some(LongText(TITLE_MAX + 1)),
     Some(LongText(TITLE_MAX + 1) \o <<".", "x">>),
     Some(<<" ">> \o LongText(TITLE_MAX) \o <<" ">>)}

DialogB == <<"B">>

\* Dialog names: two that differ only in a special character, and a third
DialogNames == {DialogB, <<"B", "!">>, <<"C">>}

ChatEntry(att, user, date, dialog, text) ==
    [attachments |-> att, user_name |-> user, created_at |-> date,
     dialog_name |-> dialog, associated_text |-> text]

Media(u, t, d) == [public_url |-> u, fileType |-> t, createAtUtc |-> d]

Note(kids, text, media) == [children |-> kids, payload |-> text, media |-> media]

\* Inputs for the extraction: every kind of URL, every kind of title, and
\* several entries with equal and different timestamps
ParseInputs(f) ==
    IF f = "chat"
    THEN {<<ChatEntry(att, KidK, Day, DialogB, None)>> :
              att \in SeqsUpTo(UrlKinds, MaxAttachments)}
         \cup {<<ChatEntry(<<u>>, user, Day, DialogB, t)>> :
                  u \in {PngUrl, Mp4Url}, user \in UserNames, t \in AssociatedTexts}
         \cup UNION {{[k \in 1..n |->
                          ChatEntry(IF k = 1 THEN <<PngUrl, Mp4Url>> ELSE <<PngUrl>>,
                                    MsT, ds[k], DialogB, None)] :
                         ds \in [1..n -> Timestamps("chat")]} : n \in 2..MaxEntries}
    ELSE {<<Note(<<KidK>>, None, media)>> :
              media \in SeqsUpTo({Media(u, Jpg, Day) : u \in UrlKinds}, MaxAttachments)}
         \cup {<<Note(kids, text, <<Media(PngUrl, Jpg, Day)>>)>> :
                  kids \in {<< >>, <<KidK>>, <<KidK, MsT>>}, text \in Payloads}
         \cup UNION {{[k \in 1..n |->
                          Note(<<MsT>>, None,
                               IF k = 1
                               THEN <<Media(PngUrl, Jpg, ds[k]), Media(Mp4Url, Mp4, Day)>>
                               ELSE <<Media(PngUrl, Jpg, ds[k])>>)] :
                         ds \in [1..n -> Timestamps("home")]} : n \in 2..MaxEntries}

\* Inputs for whole runs: no media at all, or up to MaxItems photos of one
\* sender taken on the same day, the last one possibly with the hour in its
\* timestamp. In the chat feed the first messages belong to one conversation
\* and the others, if any, to a second one, whose name differs from the
\* first in a special character only, or altogether.
RunDates(f, n, hour) ==
    [k \in 1..n |-> IF hour /\ k = n
                    THEN Day \o (IF f = "chat" THEN <<"T">> ELSE <<" ">>) \o <<"0", "2">>
                    ELSE Day]

RunDialogs(n, j, second) == [k \in 1..n |-> IF k <= j THEN DialogB ELSE second]

RunInputs(f) ==
    IF f = "chat"
    THEN UNION {{[k \in 1..n |->
                     ChatEntry(<<PngUrl>>, MsT, RunDates(f, n, hour)[k],
                               RunDialogs(n, j, second)[k], None)] :
                    hour \in BOOLEAN, j \in 1..n, second \in DialogNames \ {DialogB}} :
                n \in 0..MaxItems}
         \cup {<< >>}
    ELSE UNION {{[k \in 1..n |->
                     Note(<<MsT>>, None, <<Media(PngUrl, Jpg, RunDates(f, n, hour)[k])>>)] :
                    hour \in BOOLEAN} : n \in 0..MaxItems}

\* The state when run() is entered: empty output directory
InitRunWith(inputs, tools) ==
    /\ TextOff /\ SanOff /\ SyncOff /\ ConfigOff /\ MoreOff
    /\ feed \in {"chat", "home"}
    /\ raw \in inputs[feed]
    /\ has_exiftool \in tools
    /\ descriptors = << >>
    /\ by_dialog = << >>
    /\ batch_no = 0
    /\ batch_items = << >>
    /\ dirs = << >>
    /\ all_downloaded = << >>
    /\ tag_calls = << >>
    /\ tag_failed = {}
    /\ warnings = 0
    /\ run_result = None
    /\ rpc = "start"
    /\ media_items = << >>
    /\ disk = {}
    /\ disk_at_start = {}
    /\ pc = "off"
    /\ run_no = 0
    /\ date_counts = << >>
    /\ filenames = << >>
    /\ already_exist = 0
    /\ to_download = << >>
    /\ future = << >>
    /\ attempts = << >>
    /\ handled = {}
    /\ newly_downloaded = << >>
    /\ written = {}

\* Extraction and the naming pass of the batches
InitParse == InitRunWith([f \in {"chat", "home"} |-> ParseInputs(f)], {TRUE})

NextParse ==
    \/ RunStart
    \/ StartBatch
    \/ FirstPassStep

SpecParse == InitParse /\ [][NextParse]_vars

\* Whole runs, with and without the tagging tool
InitRun == InitRunWith([f \in {"chat", "home"} |-> RunInputs(f)], BOOLEAN)

NextRun ==
    \/ RunStart
    \/ StartBatch
    \/ FirstPassStep
    \/ ReturnNothing
    \/ Submit
    \/ StartFetch
    \/ \E k \in 1..MaxItems : FetchOk(k)
    \/ \E k \in 1..MaxItems : \E wrote \in BOOLEAN : FetchError(k, wrote)
    \/ \E k \in 1..MaxItems : Stall(k)
    \/ \E k \in 1..MaxItems : Collect(k)
    \/ Return
    \/ EndBatch
    \/ SetMetadata
    \/ ReturnRun

SpecRun == InitRun /\ [][NextRun]_vars

----------------------------------------------------------------------------
\* sanitize_folder_name called on its own (tests/test_utils.py)

MaxNameLen == 4     \* longest name

\* A letter, the underscore, the hyphen, a blank and a special character
NameChars == {"a", "_", "-", " ", "!"}

InitSan ==
    /\ san_name \in SeqsUpTo(NameChars, MaxNameLen)
    /\ san_result = None
    /\ TextOff /\ DownloadOff /\ RunOff /\ SyncOff /\ ConfigOff /\ MoreOff

Sanitize ==
    /\ san_result = None
    /\ san_result' = Some(sanitize_folder_name(san_name))
    /\ UNCHANGED san_name
    /\ UNCHANGED <<textVars, dlVars, runVars, syncVars, cfgVars, moreVars>>

NextSan == Sanitize

SpecSan == InitSan /\ [][NextSan]_vars

----------------------------------------------------------------------------
\* fetch.py: load_last_sync, save_last_sync and main. The .last_sync file is
\* the record [kind, data]: kind is "absent", "corrupt" (not JSON) or "json",
\* and data is the JSON object, a function from keys to values. The
\* 'messages' marker is a Unix timestamp and the 'notes' marker a timestamp
\* string; both are small positive numbers here, 0 standing for a missing
\* or empty timestamp of an item.

MaxStamp == 2       \* latest timestamp an item can have
MaxFetches == 2     \* runs of main() in successive sync runs
MaxSyncRuns == 1    \* runs of main() on one start file

EmptyMap == << >>

SyncFile(kind, data) == [kind |-> kind, data |-> data]

\* load_last_sync(): {} when the file is absent or cannot be parsed
load_last_sync(file) == IF file.kind = "json" THEN file.data ELSE EmptyMap

\* existing.update(data)
Update(existing, data) ==
    [k \in DOMAIN existing \cup DOMAIN data |->
        IF k \in DOMAIN data THEN data[k] ELSE existing[k]]

\* A save that writes the new markers only
save_last_sync_Replace(file, data) == SyncFile("json", data)

\* save_last_sync(data): the file after the call
save_last_sync(file, data) ==
    SyncFile("json", Update(load_last_sync(file), data))

\* What fetch_messages / fetch_notes come back with: nothing (an HTTP error,
\* no dialogs, no enrollment), or the items, given by their timestamps
FetchFailed == [ok |-> FALSE, stamps |-> {}]

FetchResults ==
    {FetchFailed} \cup {[ok |-> TRUE, stamps |-> S] : S \in SUBSET (0..MaxStamp)}

\* latest_timestamp / latest_time: the greatest non-empty timestamp of the
\* fetched items, None when there is none
LatestOf(res) ==
    LET stamps == res.stamps \ {0}
    IN  IF stamps = {} THEN None ELSE Some(MaxOf(stamps))

\* main, lines 232-237 and 272-277: the marker a feed contributes to new_sync
NewMarker(asked, res) ==
    IF asked /\ res.ok /\ res.stamps # {} THEN LatestOf(res) ELSE None

\* new_sync at the end of main
NewSync(qb, mres, lg, nres) ==
    LET m == NewMarker(qb, mres)
        n == NewMarker(lg, nres)
    IN  [k \in (IF m = None THEN {} ELSE {"messages"})
               \cup (IF n = None THEN {} ELSE {"notes"}) |->
            IF k = "messages" THEN m[1] ELSE n[1]]

\* The files a run can find: none, an unreadable one, and JSON objects with
\* or without either marker and with or without a key of another kind
SyncObjects ==
    {Update(markers, other) :
        markers \in UNION {[D -> 1..MaxStamp] : D \in SUBSET {"messages", "notes"}},
        other \in {EmptyMap, [k \in {"other"} |-> "x"]}}

InitSync ==
    /\ sync_file \in {SyncFile("absent", EmptyMap), SyncFile("corrupt", EmptyMap)}
                     \cup {SyncFile("json", data) : data \in SyncObjects}
    /\ sync_before = sync_file
    /\ last_fetch = None
    /\ fetch_no = 0
    /\ TextOff /\ DownloadOff /\ RunOff /\ SanOff /\ ConfigOff /\ MoreOff

\* What a run obtained for one feed: whether the feed was fetched at all,
\* whether items came back, and whether one of them carried a timestamp
Obtained(fetched, res) ==
    [fetched |-> fetched,
     items   |-> fetched /\ res.ok /\ res.stamps # {},
     stamped |-> fetched /\ res.ok /\ (\E t \in res.stamps : t > 0)]

\* One run of main(): --all or incremental, with --qb-curl and/or --lg-curl.
\* qb_ok / lg_ok: the cURL command holds the token / cookie and x-uid;
\* without them main leaves through sys.exit(1) and nothing is saved. The
\* notes are not fetched when the run has left in the messages part.
FetchMain(all, qb, qb_ok, mres, lg, lg_ok, nres) ==
    /\ fetch_no < MaxSyncRuns
    /\ qb \/ lg
    /\ LET exited == (qb /\ ~qb_ok) \/ (lg /\ ~lg_ok)
           new_sync == NewSync(qb, mres, lg, nres)
       IN  /\ last_fetch' = Some([all |-> all, qb |-> qb, lg |-> lg,
                                   exited |-> exited,
                                   messages |-> Obtained(qb /\ qb_ok, mres),
                                   notes |-> Obtained(lg /\ lg_ok /\ (qb => qb_ok), nres)])
           /\ sync_file' = IF ~exited /\ new_sync # EmptyMap
                            THEN save_last_sync(sync_file, new_sync)
                            ELSE sync_file
    /\ sync_before' = sync_file
    /\ fetch_no' = fetch_no + 1
    /\ UNCHANGED <<textVars, dlVars, runVars, sanVars, cfgVars, moreVars>>

\* A feed that is not fetched has no result
NextSync ==
    \E all \in BOOLEAN, qb \in BOOLEAN, lg \in BOOLEAN :
    \E qb_ok \in (IF qb THEN BOOLEAN ELSE {TRUE}),
       lg_ok \in (IF lg THEN BOOLEAN ELSE {TRUE}) :
    \E mres \in (IF qb /\ qb_ok THEN FetchResults ELSE {FetchFailed}),
       nres \in (IF lg /\ lg_ok /\ qb_ok THEN FetchResults ELSE {FetchFailed}) :
        FetchMain(all, qb, qb_ok, mres, lg, lg_ok, nres)

SpecSync == InitSync /\ [][NextSync]_vars

----------------------------------------------------------------------------
\* config.py: DEFAULT_CONFIG and load_config. The config file is the record
\* [kind, data]: kind is "absent", "corrupt" (not JSON), "not_object" (JSON
\* that is not an object) or "json" with data the JSON object. A value is
\* None for null and Some(text) for a string.

ConfigFile(kind, data) == [kind |-> kind, data |-> data]

\* Defaults that know the location key only
DEFAULT_CONFIG_LocationOnly == [k \in {"location"} |-> None]

DEFAULT_CONFIG == [k \in {"location", "email", "op_path"} |-> None]

\* What load_config comes back with: a dict, or the TypeError of unpacking
\* something that is not a mapping
Returned(config) == [raised |-> FALSE, config |-> config]

Raised == [raised |-> TRUE, config |-> EmptyMap]

\* A merge in which the defaults overwrite the file
load_config_DefaultsWin(file) ==
    IF file.kind = "json" THEN Returned(Update(file.data, DEFAULT_CONFIG))
    ELSE IF file.kind = "not_object" THEN Raised
    ELSE Returned(DEFAULT_CONFIG)

\* load_config()
load_config(file) ==
    IF file.kind = "json" THEN Returned(Update(DEFAULT_CONFIG, file.data))
    ELSE IF file.kind = "not_object" THEN Raised
    ELSE Returned(DEFAULT_CONFIG)

\* The keys and values of the config files tried: the three known keys and
\* one unknown, each absent, null or a string
ConfigKeys == {"location", "email", "op_path", "extra"}

ConfigValues == {None, Some("home"), Some("chat")}

ConfigObjects == UNION {[D -> ConfigValues] : D \in SUBSET ConfigKeys}

InitConfig ==
    /\ config_file \in {ConfigFile("absent", EmptyMap), ConfigFile("corrupt", EmptyMap),
                        ConfigFile("not_object", EmptyMap)}
                       \cup {ConfigFile("json", data) : data \in ConfigObjects}
    /\ loaded_config = None
    /\ TextOff /\ DownloadOff /\ RunOff /\ SanOff /\ SyncOff /\ MoreOff

LoadConfig ==
    /\ loaded_config = None
    /\ loaded_config' = Some(load_config(config_file))
    /\ UNCHANGED <<config_file, textVars, dlVars, runVars, sanVars, syncVars, moreVars>>

NextConfig == LoadConfig

SpecConfig == InitConfig /\ [][NextConfig]_vars

----------------------------------------------------------------------------
\* download.py: clear_new_folder, copy_to_new_folder and run. A file below
\* photos/ is its path relative to photos/, a tuple: <<"home", name>> or
\* <<"chat", kid_folder, name>>. photos/new holds paths relative to itself.

MaxDownloadRuns == 3    \* calls of run()

\* The files the two data files refer to, by the path run_home / run_chat
\* would give them
FeedTargets(f) ==
    IF f = "Home"
    THEN {<<"home", "a.jpg">>, <<"home", "b.mp4">>}
    ELSE {<<"chat", "Kid", "a.jpg">>, <<"chat", "Kid", "c.jpg">>}

\* A list of the members of a set of paths
RECURSIVE ListOf(_)
ListOf(S) ==
    IF S = {} THEN << >>
    ELSE LET x == CHOOSE y \in S : TRUE
         IN  <<x>> \o ListOf(S \ {x})

\* A clear_new_folder that leaves the folder in place
clear_new_folder_Keep(nf) == nf

\* clear_new_folder(): photos/new after the call
clear_new_folder(nf) == None

\* copy_to_new_folder(files): photos/new after the call; mkdir(parents=True,
\* exist_ok=True) creates it, copy2 puts each file at its relative path
copy_to_new_folder(nf, files) ==
    Some((IF nf = None THEN {} ELSE nf[1]) \cup {files[i] : i \in 1..Len(files)})

\* The feeds in the order run() considers them, with the two flags swapped
FeedsAsked_Swapped(home_only, chat_only) ==
    (IF ~home_only THEN <<"Home">> ELSE << >>)
        \o (IF ~chat_only THEN <<"Chat">> ELSE << >>)

\* The feeds run() considers, in order: "if not chat_only" then
\* "if not home_only"
FeedsAsked(home_only, chat_only) ==
    (IF ~chat_only THEN <<"Home">> ELSE << >>)
        \o (IF ~home_only THEN <<"Chat">> ELSE << >>)

\* The entry a feed appends to results
FeedResult(name, exists, new_files) ==
    IF exists THEN <<name, TRUE, Len(new_files)>> ELSE <<name, FALSE, 0>>

\* run(home_only, chat_only): notes / message say whether data/notes.json
\* and data/message.json exist; got[f] are the files the feed script of f
\* newly downloads when it is called
DownloadRun(home_only, chat_only, notes, message, got) ==
    /\ dlr_no < MaxDownloadRuns
    /\ LET asked    == FeedsAsked(home_only, chat_only)
           exists   == [f \in {"Home", "Chat"} |-> IF f = "Home" THEN notes ELSE message]
           called   == SelectSeq(asked, LAMBDA f : exists[f])
           new(f)   == IF exists[f] THEN ListOf(got[f]) ELSE << >>
           cleared  == clear_new_folder(new_folder)
           files    == (IF Len(called) >= 1 THEN new(called[1]) ELSE << >>)
                           \o (IF Len(called) >= 2 THEN new(called[2]) ELSE << >>)
       IN  /\ \A f \in {"Home", "Chat"} :
                got[f] \subseteq (IF \E i \in 1..Len(called) : called[i] = f
                                   THEN FeedTargets(f) \ photos ELSE {})
           /\ feed_calls' = called
           /\ results' = [i \in 1..Len(asked) |->
                             FeedResult(asked[i], exists[asked[i]], new(asked[i]))]
           /\ all_new_files' = files
           /\ photos' = photos \cup {files[i] : i \in 1..Len(files)}
           /\ new_folder' = IF files # << >>
                             THEN copy_to_new_folder(cleared, files)
                             ELSE cleared
    /\ run_args' = Some([home_only |-> home_only, chat_only |-> chat_only,
                          notes |-> notes, message |-> message])
    /\ dlr_no' = dlr_no + 1
    /\ UNCHANGED <<textVars, dlVars, runVars, sanVars, syncVars, cfgVars, toolVars,
                   feedVars, fetched_ok>>

InitDlr ==
    /\ photos = {}
    /\ new_folder = None
    /\ run_args = None
    /\ feed_calls = << >>
    /\ results = << >>
    /\ all_new_files = << >>
    /\ dlr_no = 0
    /\ TextOff /\ DownloadOff /\ RunOff /\ SanOff /\ SyncOff /\ ConfigOff
    /\ ToolOff /\ FeedOff /\ HistOff

NextDlr ==
    \E home_only \in BOOLEAN, chat_only \in BOOLEAN, notes \in BOOLEAN,
       message \in BOOLEAN :
    \E got \in [{"Home", "Chat"} -> SUBSET (FeedTargets("Home") \cup FeedTargets("Chat"))] :
        DownloadRun(home_only, chat_only, notes, message, got)

SpecDlr == InitDlr /\ [][NextDlr]_vars

----------------------------------------------------------------------------
\* sync.py (main, run_auto_login, run_manual_mode, run_fetch, run_download)
\* and login.py (main, run_fetch, run_download): one run of the sync tool.
\* The fetch step is fetch.py; its effect on .last_sync is the one of main
\* above. The download step is download.py; it adds files below photos/.

\* The functions each module defines at top level
ModuleNames ==
    [fetch    |-> {"parse_curl", "fetch_json", "load_last_sync", "save_last_sync",
                   "fetch_messages", "fetch_notes", "main"},
     download |-> {"clear_new_folder", "copy_to_new_folder", "run", "main"},
     login    |-> {"get_password_from_1password", "get_credentials",
                   "login_and_capture_tokens", "run_fetch", "run_download", "main"}]

\* "from <module> import <name>" succeeds
CanImport(module, name) == name \in ModuleNames[module]

\* .last_sync after a run of fetch.py main that reached its end
AfterFetch(file, qb, mres, lg, nres) ==
    LET new_sync == NewSync(qb, mres, lg, nres)
    IN  IF new_sync # EmptyMap THEN save_last_sync(file, new_sync) ELSE file

\* A test that lets every run through to the fetch step
HasUsableToken_Always(tok) == TRUE

\* run_auto_login line 98 / login.main line 268:
\* if tokens['lg_session'] or tokens['qb_token']
HasUsableToken(tok) == tok.lg_session \/ tok.qb_token

\* login.run_fetch: the options given to fetch.py
PassesLgCurl(tok) == tok.lg_session /\ tok.x_uid

PassesQbCurl(tok) == tok.qb_token

\* The tokens login_and_capture_tokens can come back with
TokenSets == [lg_session : BOOLEAN, x_uid : BOOLEAN, qb_token : BOOLEAN]

\* What the fetch of one feed brings in a run of the tool
ToolFetchResults ==
    {FetchFailed, [ok |-> TRUE, stamps |-> {}], [ok |-> TRUE, stamps |-> {MaxStamp}]}

\* The files a download step can add
ToolDownloads == SUBSET FeedTargets("Home")

\* Automatic mode: sync.py main -> run_auto_login (entry "sync"), or
\* login.py main (entry "login"). login is "ok" or the sys.exit(1) taken in
\* get_credentials or login_and_capture_tokens; fetch_raises: fetch.py ends
\* with an uncaught exception (urlopen raising URLError, for instance).
AutoSync(entry, login, tok, fetch_raises, mres, nres, got) ==
    /\ tool_args = None
    /\ tool_args' = Some([entry |-> entry, manual |-> FALSE, login |-> login,
                           tokens |-> tok, lg_valid |-> FALSE, qb_valid |-> FALSE,
                           fetch_raises |-> fetch_raises])
    /\ sync_before' = sync_file
    /\ LET missing == ~tok.lg_session \/ ~tok.x_uid \/ ~tok.qb_token
           warned  == IF missing THEN {"Warning: Could not capture"} ELSE {}
           lg      == PassesLgCurl(tok)
           qb      == PassesQbCurl(tok)
           \* fetch.py exits 1 without --qb-curl and --lg-curl (line 196)
           fetched == (lg \/ qb) /\ ~fetch_raises
       IN  IF login # "ok"
           THEN /\ steps' = << >>
                /\ reports' = {login}
                /\ exit_status' = Some(1)
                /\ UNCHANGED <<sync_file, photos, new_folder>>
           ELSE IF HasUsableToken(tok)
           THEN /\ reports' = warned
                /\ sync_file' = IF fetched
                                 THEN AfterFetch(sync_file, qb, mres, lg, nres)
                                 ELSE sync_file
                /\ IF fetched
                   THEN /\ steps' = <<"fetch", "download">>
                        /\ photos' = photos \cup got
                        /\ new_folder' = IF got = {} THEN None ELSE Some(got)
                   ELSE /\ steps' = <<"fetch">>
                        /\ UNCHANGED <<photos, new_folder>>
                \* return True (sync.py 101, 106); login.main returns
                /\ exit_status' = Some(0)
           ELSE /\ steps' = << >>
                /\ reports' = warned \cup {"Error: No tokens captured"}
                                \cup (IF entry = "sync" THEN {"Auto-login failed"} ELSE {})
                /\ exit_status' = Some(1)
                /\ UNCHANGED <<sync_file, photos, new_folder>>
    /\ UNCHANGED <<last_fetch, fetch_no>>
    /\ UNCHANGED <<run_args, feed_calls, results, all_new_files, dlr_no>>
    /\ UNCHANGED <<textVars, dlVars, runVars, sanVars, cfgVars, feedVars, fetched_ok>>

\* Manual mode: sync.py main -> run_manual_mode. lg_valid / qb_valid: the
\* pasted text is non-empty and contains "curl". run_fetch of sync.py does
\* "from fetch import run", run_download "from download import run".
\* fetch_ok is what fetch.run would return if there were one.
ManualSync(lg_valid, qb_valid, fetch_ok, mres, nres, got) ==
    /\ tool_args = None
    /\ tool_args' = Some([entry |-> "sync", manual |-> TRUE, login |-> "ok",
                           tokens |-> [lg_session |-> FALSE, x_uid |-> FALSE,
                                       qb_token |-> FALSE],
                           lg_valid |-> lg_valid, qb_valid |-> qb_valid,
                           fetch_raises |-> FALSE])
    /\ sync_before' = sync_file
    /\ IF ~qb_valid /\ ~lg_valid
       THEN /\ steps' = << >>
            /\ reports' = {"No data to fetch"}
            /\ exit_status' = Some(1)
            /\ UNCHANGED <<sync_file, photos, new_folder>>
       ELSE IF ~CanImport("fetch", "run")
       THEN \* run_fetch raises ImportError; nothing catches it
            /\ steps' = << >>
            /\ reports' = {"ImportError"}
            /\ exit_status' = Some(1)
            /\ UNCHANGED <<sync_file, photos, new_folder>>
       ELSE IF ~fetch_ok
       THEN /\ steps' = <<"fetch">>
            /\ reports' = {"Fetch failed"}
            /\ exit_status' = Some(1)
            /\ UNCHANGED <<sync_file, photos, new_folder>>
       ELSE /\ steps' = <<"fetch", "download">>
            /\ reports' = {}
            /\ exit_status' = Some(0)
            /\ sync_file' = AfterFetch(sync_file, qb_valid, mres, lg_valid, nres)
            /\ photos' = photos \cup got
            /\ new_folder' = IF got = {} THEN None ELSE Some(got)
    /\ UNCHANGED <<last_fetch, fetch_no>>
    /\ UNCHANGED <<run_args, feed_calls, results, all_new_files, dlr_no>>
    /\ UNCHANGED <<textVars, dlVars, runVars, sanVars, cfgVars, feedVars, fetched_ok>>

InitTool ==
    /\ sync_file \in {SyncFile("absent", EmptyMap), SyncFile("corrupt", EmptyMap)}
                     \cup {SyncFile("json", data) : data \in SyncObjects}
    /\ sync_before = sync_file
    /\ last_fetch = None
    /\ fetch_no = 0
    /\ photos = {}
    /\ new_folder = None
    /\ run_args = None
    /\ feed_calls = << >>
    /\ results = << >>
    /\ all_new_files = << >>
    /\ dlr_no = 0
    /\ ToolOff /\ FeedOff /\ HistOff
    /\ TextOff /\ DownloadOff /\ RunOff /\ SanOff /\ ConfigOff

NextTool ==
    \/ \E entry \in {"sync", "login"},
          login \in {"ok", "Error: Email is required", "Error: playwright not installed"},
          tok \in TokenSets, fetch_raises \in BOOLEAN,
          mres \in ToolFetchResults, nres \in ToolFetchResults,
          got \in ToolDownloads :
            /\ got \cap photos = {}
            /\ AutoSync(entry, login, tok, fetch_raises, mres, nres, got)
    \/ \E lg_valid \in BOOLEAN, qb_valid \in BOOLEAN, fetch_ok \in BOOLEAN,
          mres \in ToolFetchResults, nres \in ToolFetchResults,
          got \in ToolDownloads :
            /\ got \cap photos = {}
            /\ ManualSync(lg_valid, qb_valid, fetch_ok, mres, nres, got)

SpecTool == InitTool /\ [][NextTool]_vars

----------------------------------------------------------------------------
\* Successive incremental sync runs on the chat feed: fetch.py (main,
\* fetch_messages) followed by download.py (run -> run_chat ->
\* download_media). Message id has date_sent id and belongs to dialog "A"
\* (odd ids) or "B" (even ids), so the server's messages get later
\* timestamps as they arrive; each message carries one media attachment,
\* downloaded to a file of its own.

MaxMsgs == 3    \* messages the server comes to hold

MsgDialog(id) == IF id % 2 = 1 THEN "A" ELSE "B"

MsgStamp(id) == id

\* last_sync.get('messages')
SinceOf(file) ==
    LET last_sync == load_last_sync(file)
    IN  IF "messages" \in DOMAIN last_sync THEN Some(last_sync["messages"]) ELSE None

\* fetch_messages(qb_token, since_timestamp): None when the dialog list
\* cannot be fetched; otherwise the messages of every dialog whose request
\* succeeded, filtered by date_sent[gt]=since when since is given. A dialog
\* whose request fails (fetch_json returns None) is passed over.
fetch_messages(server, since, listing_ok, failed_dialogs) ==
    IF ~listing_ok THEN None
    ELSE Some({id \in server :
                /\ MsgDialog(id) \notin failed_dialogs
                /\ (since = None \/ MsgStamp(id) > since[1])})

\* A message is sent
Arrive ==
    /\ sync_pc = "idle"
    /\ arrived < MaxMsgs
    /\ arrived' = arrived + 1
    /\ UNCHANGED <<message_json, written_msgs, media_disk, attempted, failed_last,
                   failed_before, sync_pc>>
    /\ UNCHANGED <<textVars, dlVars, runVars, sanVars, syncVars, cfgVars, dlrVars,
                   toolVars, fetched_ok>>

\* fetch.py --qb-curl ... (incremental): main
FetchStep(listing_ok, failed_dialogs) ==
    /\ sync_pc = "idle"
    /\ fetch_no < MaxFetches
    /\ LET got == fetch_messages(1..arrived, SinceOf(sync_file), listing_ok,
                                  failed_dialogs)
           res == IF got = None THEN FetchFailed
                  ELSE [ok |-> TRUE, stamps |-> {MsgStamp(id) : id \in got[1]}]
       IN  /\ IF got # None /\ got[1] # {}
              THEN /\ message_json' = Some(got[1])
                   /\ written_msgs' = written_msgs \cup got[1]
              ELSE UNCHANGED <<message_json, written_msgs>>
           /\ sync_file' = AfterFetch(sync_file, TRUE, res, FALSE, FetchFailed)
           /\ last_fetch' = Some([listing_ok |-> listing_ok,
                                   failed_dialogs |-> failed_dialogs])
    /\ sync_before' = sync_file
    /\ fetch_no' = fetch_no + 1
    /\ sync_pc' = "fetched"
    /\ UNCHANGED <<arrived, media_disk, attempted, failed_last, failed_before>>
    /\ UNCHANGED <<textVars, dlVars, runVars, sanVars, cfgVars, dlrVars, toolVars,
                   fetched_ok>>

\* download.py: run -> run_chat -> download_media on data/message.json.
\* Every item without a file is fetched once; fails are the fetches that
\* raise.
DownloadStep(fails) ==
    /\ sync_pc = "fetched"
    /\ LET listed == IF message_json = None THEN {} ELSE message_json[1]
           todo   == listed \ media_disk
       IN  /\ fails \subseteq todo
           /\ attempted' = todo
           /\ media_disk' = media_disk \cup (todo \ fails)
           /\ failed_last' = fails
           /\ failed_before' = failed_last
    /\ sync_pc' = "idle"
    /\ UNCHANGED <<arrived, message_json, written_msgs>>
    /\ UNCHANGED <<textVars, dlVars, runVars, sanVars, syncVars, cfgVars, dlrVars,
                   toolVars, fetched_ok>>

InitFeed ==
    /\ arrived = 0
    /\ message_json = None
    /\ written_msgs = {}
    /\ media_disk = {}
    /\ attempted = {}
    /\ failed_last = {}
    /\ failed_before = {}
    /\ sync_pc = "idle"
    /\ sync_file = SyncFile("absent", EmptyMap)
    /\ sync_before = sync_file
    /\ last_fetch = None
    /\ fetch_no = 0
    /\ TextOff /\ DownloadOff /\ RunOff /\ SanOff /\ ConfigOff /\ DlrOff /\ ToolOff
    /\ HistOff

NextFeed ==
    \/ Arrive
    \/ \E listing_ok \in BOOLEAN, failed_dialogs \in SUBSET {"A", "B"} :
            FetchStep(listing_ok, failed_dialogs)
    \/ \E fails \in SUBSET (1..MaxMsgs) : DownloadStep(fails)

SpecFeed == InitFeed /\ [][NextFeed]_vars

----------------------------------------------------------------------------
\* Claims about filenames and the download batch

Range(seq) == {seq[n] : n \in 1..Len(seq)}

\* Per item: the owner label and timestamp as given in the input
PairOf == [k \in 1..Len(media_items) |-> <<media_items[k].owner, media_items[k].date>>]

\* Per item: the base name <owner>_<timestamp>
RECURSIVE BaseNames(_)
BaseNames(n) ==
    IF n = 0 THEN << >>
    ELSE Append(BaseNames(n - 1), BaseKey(feed, media_items[n]))

BaseOf == BaseNames(Len(media_items))

\* Item k is the n-th item with its key, in list order
RankIn(keys, k) == Cardinality({j \in 1..k : keys[j] = keys[k]})

\* "02", "03", ... as the claim writes them
TwoDigits(n) == <<DigitChars[(n \div 10) + 1], DigitChars[(n % 10) + 1]>>

\* The name the claim gives item k when it is the n-th item of its key
ClaimedName(base, k, n) ==
    base[k] \o (IF n = 1 THEN << >> ELSE <<"_">> \o TwoDigits(n))
            \o <<".">> \o media_items[k].ftype

\* The names download_media gives the items of the input
TargetNames ==
    LET base == BaseOf
    IN  [k \in 1..Len(media_items) |-> ClaimedName(base, k, RankIn(base, k))]

\* "Ms_T_2026-01-12"
Name_Ms_T_Day == <<"M", "s", "_", "T", "_">> \o Day

\* C1: within one download_media call no two media items are assigned the
\* same filename, so no two fetch tasks write the same target path.
C1_FilenamesUnique ==
    \A j \in 1..Len(filenames) : \A k \in 1..Len(filenames) :
        j # k => filenames[j] # filenames[k]

\* C2 as claimed: the first item with a given (owner_label, timestamp) pair
\* gets the bare name and the k-th item with that pair the suffix _0k.
C2_SuffixByPair ==
    LET base == BaseOf
        pair == PairOf
    IN  \A k \in 1..Len(filenames) :
            filenames[k] = ClaimedName(base, k, RankIn(pair, k))

\* C2 as amended: the first item with a given base name (sanitized owner
\* label, formatted timestamp) gets the bare name <owner>_<timestamp>.<ext>
\* and the k-th item with that base name gets the suffix _02, _03, ... in
\* first-seen order, whatever items with other base names come in between.
C2_SuffixByBaseName ==
    LET base == BaseOf
    IN  \A k \in 1..Len(filenames) :
            filenames[k] = ClaimedName(base, k, RankIn(base, k))

\* C2 witness: chat feed, three items of one timestamp; the second has
\* another base name, the first and the third are named
\* Ms_T_2026-01-12.jpg and Ms_T_2026-01-12_02.jpg.
C2_Witness ==
    /\ feed = "chat"
    /\ Len(filenames) = 3
    /\ BaseOf[1] # BaseOf[2]
    /\ filenames[1] = Name_Ms_T_Day \o <<".", "j", "p", "g">>
    /\ filenames[3] = Name_Ms_T_Day \o <<"_", "0", "2", ".", "j", "p", "g">>

\* C3: an item is put on the download list exactly when no file with its
\* filename exists when the first pass runs, and once the call has returned
\* it has been fetched exactly in that case; an item whose file exists is
\* counted in already_exist, is never fetched, its file is never written,
\* and it still takes its suffix number.
C3_FetchedIffAbsent ==
    /\ LET names == TargetNames
       IN  \A k \in 1..Len(filenames) : filenames[k] = names[k]
    /\ \A k \in 1..Len(filenames) :
         /\ (k \in ToDownloadSet) <=> (filenames[k] \notin disk_at_start)
         /\ attempts[k] > 0 => k \in ToDownloadSet
         /\ filenames[k] \in disk_at_start =>
               attempts[k] = 0 /\ filenames[k] \notin written
    /\ already_exist =
         Cardinality({k \in 1..Len(filenames) : filenames[k] \in disk_at_start})
    /\ pc = "returned" =>
         \A k \in 1..Len(media_items) :
            (attempts[k] > 0) <=> (filenames[k] \notin disk_at_start)

\* C3 witness: a second call in which an item is skipped because its file
\* exists and a later item of the same base name is fetched under the
\* suffixed name.
C3_Witness ==
    /\ pc = "returned"
    /\ \E j \in 1..Len(media_items) : \E k \in 1..Len(media_items) :
         /\ j < k
         /\ BaseOf[j] = BaseOf[k]
         /\ filenames[j] \in disk_at_start
         /\ attempts[j] = 0
         /\ attempts[k] = 1
         /\ filenames[k] = ClaimedName(BaseOf, k, 2)

\* C4: a call that starts with every target filename in the output directory
\* makes no fetch attempt, returns no newly downloaded file and leaves the
\* set of files unchanged.
C4_RerunFetchesNothing ==
    Range(TargetNames) \subseteq disk_at_start =>
        /\ \A k \in 1..Len(media_items) : attempts[k] = 0
        /\ Tasks = {}
        /\ newly_downloaded = << >>
        /\ written = {}
        /\ disk = disk_at_start

\* C4 witness: the second call on a list of at least two items has returned
\* and every target file was there when it started.
C4_Witness ==
    /\ run_no = 2
    /\ pc = "returned"
    /\ Len(media_items) >= 2
    /\ Range(TargetNames) \subseteq disk_at_start

\* C5: no item is fetched twice; when the call returns, every item of the
\* download list has had exactly one fetch attempt, whatever became of the
\* others, and the returned list holds exactly the items whose fetch
\* succeeded, each once.
C5_OneAttemptAndExactResult ==
    /\ \A k \in 1..Len(media_items) : attempts[k] <= 1
    /\ Range(newly_downloaded) \subseteq InState("ok")
    /\ Len(newly_downloaded) = Cardinality(Range(newly_downloaded))
    /\ pc = "returned" =>
         /\ \A k \in ToDownloadSet : attempts[k] = 1
         /\ Range(newly_downloaded) = InState("ok")

\* C5 witness: a call has returned in which a fetch failed and the fetch of
\* an item submitted after it succeeded.
C5_Witness ==
    /\ pc = "returned"
    /\ \E j \in InState("error") : \E k \in InState("ok") :
         j < k /\ k \in Range(newly_downloaded)

Ended(k) == k \in Tasks /\ future[k] \in {"ok", "error"}

\* C6 as claimed: a stalled fetch delays only its own task, for any number
\* of stalled fetches: whenever a task waits in the queue, a worker is free
\* for it or some running fetch is not stalled and will free one.
C6_QueuedNeverBlocked ==
    InState("queued") # {} => (WorkerAvailable \/ InState("running") # {})

\* C6 as amended: as long as fewer than `parallel` fetches are stalled, every
\* submitted task is started and its fetch ends or stalls itself.
C6_ProgressBelowPoolWidth ==
    \A k \in 1..MaxItems :
        (k \in InState("queued")) ~>
            (Ended(k) \/ k \in InState("stalled")
               \/ Cardinality(InState("stalled")) >= parallel)

\* C6 witness: a fetch submitted before another one is stalled and the later
\* one has ended.
C6_Witness ==
    \E j \in InState("stalled") : \E k \in Tasks : j < k /\ Ended(k)

\* C7: at most `parallel` fetches are in flight at any moment; the call
\* returns only after every submitted task has finished and been handled;
\* the result list changes only in an iteration of the coordinating loop
\* (or when a new call starts), and a step of a worker changes none of the
\* coordinator's locals.
C7_BoundedPoolJoinedAtReturn ==
    /\ [](Cardinality(InFlight) <= parallel)
    /\ [](pc = "returned" => \A k \in Tasks : Ended(k) /\ k \in handled)
    /\ [][newly_downloaded' # newly_downloaded =>
            (pc = "returned" \/ \E k \in Tasks : Collect(k))]_vars
    /\ [][(pc = "pool" /\ future' # future) =>
            UNCHANGED <<newly_downloaded, handled, to_download, date_counts,
                        filenames, already_exist>>]_vars

\* C7 witness: the pool is full and a task waits in the queue.
C7_Witness ==
    /\ Cardinality(InFlight) = parallel
    /\ InState("queued") # {}

----------------------------------------------------------------------------
\* Claims about find_associated_text, checked under SpecText

\* Entries other than the media entry that pass the three tests of the claim,
\* written out independently of Qualifies.
IsAssociable(j) ==
    /\ j # current_idx
    /\ items[j].sender_id = items[current_idx].sender_id
    /\ items[j].content_type = "txt"
    /\ items[j].message \notin {"", "[image]", "[video]"}
    /\ items[j].date_sent - items[current_idx].date_sent <= 120
    /\ items[current_idx].date_sent - items[j].date_sent <= 120

Distance(j) == Abs(j - current_idx)

\* Position of entry j in the scan order of the claim: nearer before farther,
\* and at equal distance the entry before the media entry first.
ScanRank(j) == 2 * Distance(j) + (IF j < current_idx THEN 0 ELSE 1)

\* C8: when a text is returned it is the message of the associable entry
\* that comes first in the order "increasing offset, index - offset before
\* index + offset": no associable entry has a smaller rank than the returned
\* one, whatever the time distances are.
C8_FirstInScanOrderWins ==
    (tpc = "done" /\ scan_hit # 0) =>
        /\ IsAssociable(scan_hit)
        /\ assoc_text = Some(items[scan_hit].message)
        /\ \A j \in 1..Len(items) :
             IsAssociable(j) => ScanRank(scan_hit) <= ScanRank(j)

\* C8 witness: the entry before the media entry is returned although the
\* entry at the same offset after it is associable and closer in time.
C8_Witness ==
    /\ tpc = "done"
    /\ scan_hit # 0
    /\ scan_hit < current_idx
    /\ LET j == 2 * current_idx - scan_hit
       IN  /\ j <= Len(items)
           /\ IsAssociable(j)
           /\ Abs(items[j].date_sent - items[current_idx].date_sent)
                < Abs(items[scan_hit].date_sent - items[current_idx].date_sent)

\* The reach the comment of the loop and the specification give the search
ClaimedReach == 20

\* C9: the search covers every entry up to 20 positions away: None is
\* returned exactly when no associable entry lies within 20 positions of the
\* media entry (so an associable entry exactly 20 away is returned when no
\* nearer one is).
C9_CoversTwentyPositions ==
    tpc = "done" =>
        ((assoc_text = None) <=>
            ~ \E j \in 1..Len(items) :
                IsAssociable(j) /\ Distance(j) <= ClaimedReach)

\* C10: a returned text is the message of another entry with the same
\* sender, content type 'txt', a non-empty non-placeholder message and a
\* date_sent at most 120 seconds (inclusive) away; only indices of the list
\* are read, and the media entry itself is never read.
C10_ReturnedTextQualifies ==
    tpc = "done" =>
        /\ scan_read \subseteq (1..Len(items)) \ {current_idx}
        /\ (assoc_text # None) =>
              /\ scan_hit \in scan_read
              /\ IsAssociable(scan_hit)
              /\ assoc_text = Some(items[scan_hit].message)
        /\ (assoc_text = None) => scan_hit = 0

\* C10 witness: the first entry of the list is the media entry (so index
\* current_idx - offset is outside the list at every offset) and a text
\* exactly 120 seconds away is returned.
C10_Witness ==
    /\ tpc = "done"
    /\ current_idx = 1
    /\ assoc_text # None
    /\ Abs(items[scan_hit].date_sent - items[current_idx].date_sent) = 120

----------------------------------------------------------------------------
\* Claims about the extraction of media items

Parsed == rpc # "off" /\ rpc # "start"

\* The URLs of the attachments (chat) or media (home) of the input
RawUrls ==
    IF feed = "chat"
    THEN UNION {Range(raw[n].attachments) : n \in 1..Len(raw)}
    ELSE UNION {{raw[n].media[i].public_url : i \in 1..Len(raw[n].media)} :
                   n \in 1..Len(raw)}

DotJpg == <<".", "j", "p", "g">>

\* A thumbnail URL ends in a hex digit directly followed by jpg; a media URL
\* ends in .png or .mp4
IsMediaUrl(url) ==
    /\ ~HexJpgAtEnd(url)
    /\ EndsWith(url, DotPng) \/ EndsWith(url, DotMp4)

NeverThumbnail ==
    \A url \in RawUrls :
        (EndsWith(url, DotJpg) \/ EndsWith(url, DotMp4) \/ EndsWith(url, DotPng))
            => ~is_thumbnail(url)

\* C11 as claimed: in both feeds no media item has a thumbnail URL or a URL
\* without a recognized media extension, and a URL with a dotted extension
\* is never taken for a thumbnail.
C11_NoThumbnailEitherFeed ==
    Parsed => /\ \A n \in 1..Len(descriptors) : IsMediaUrl(descriptors[n].url)
              /\ NeverThumbnail

\* C11 as amended: parse_messages (chat) drops thumbnails and URLs that end
\* neither in .png nor in .mp4; parse_notes (home) keeps every media entry
\* with a non-empty URL, whatever the URL; a URL with a dotted extension is
\* never taken for a thumbnail.
C11_ChatFiltersHomeKeeps ==
    Parsed =>
        /\ feed = "chat" =>
               \A n \in 1..Len(descriptors) : IsMediaUrl(descriptors[n].url)
        /\ feed = "home" =>
               {descriptors[n].url : n \in 1..Len(descriptors)} = RawUrls \ {<< >>}
        /\ NeverThumbnail

\* C11 witness: a chat message with a thumbnail and a .png attachment has
\* been parsed, and only the .png became a media item.
C11_Witness ==
    /\ Parsed
    /\ feed = "chat"
    /\ \E url \in RawUrls : HexJpgAtEnd(url)
    /\ Len(descriptors) = 1
    /\ descriptors[1].url = PngUrl

\* The kind the claim gives to a URL that passed the filters
ClaimedKind(url) == IF EndsWith(url, DotMp4) THEN Mp4 ELSE Jpg

\* The items of the current batch whose filename the first pass has computed
Named == IF rpc = "batches" /\ pc # "off" THEN 1..Len(filenames) ELSE {}

\* C12: a chat media item has the kind 'mp4' exactly when its URL ends in
\* .mp4 and 'jpg' exactly when it ends in .png, never 'bin'; the filename
\* ends in the kind, and the kind is what download_one hands to the tagging
\* step, which chooses the photo or video date tags by it.
C12_KindFromUrlSuffix ==
    (Parsed /\ feed = "chat") =>
        /\ \A n \in 1..Len(descriptors) :
              /\ descriptors[n].ftype = Mp4 <=> EndsWith(descriptors[n].url, DotMp4)
              /\ descriptors[n].ftype = Jpg <=> EndsWith(descriptors[n].url, DotPng)
              /\ descriptors[n].ftype # Bin
        /\ \A k \in Named :
              LET d == descriptors[batch_items[k]]
              IN  /\ EndsWith(filenames[k], <<".">> \o ClaimedKind(d.url))
                  /\ ResultTuple(k).ftype = ClaimedKind(d.url)
                  /\ DateTags(ResultTuple(k).ftype) =
                         IF EndsWith(d.url, DotMp4) THEN "video" ELSE "photo"

\* C12 witness: the first pass has named a chat item whose URL ends in .png,
\* and the filename ends in .jpg.
C12_Witness ==
    /\ Parsed /\ feed = "chat"
    /\ \E k \in Named :
          /\ EndsWith(descriptors[batch_items[k]].url, DotPng)
          /\ EndsWith(filenames[k], DotJpg)

\* The title of media item d before the truncation, taken from the input
\* entry it comes from
SourceTitle(d) ==
    IF feed = "chat"
    THEN ChatSourceTitle(raw[d.src[1]], d.url)
    ELSE HomeSourceTitle(raw[d.src[1]])

\* C13: in both feeds a title is at most 100 characters long: a source title
\* of more than 100 characters is cut to its first 97 characters followed by
\* '...', a shorter one is kept unchanged.
C13_TitleAtMost100 ==
    Parsed =>
        \A n \in 1..Len(descriptors) :
            LET d == descriptors[n]
                source == SourceTitle(d)
            IN  /\ Len(d.title) <= 100
                /\ Len(source) > 100 =>
                       d.title = SubSeq(source, 1, 97) \o <<".", ".", ".">>
                /\ Len(source) <= 100 => d.title = source

\* C13 witness: a source title of 101 characters has been cut to 100, and it
\* ends in the ellipsis.
C13_Witness ==
    /\ Parsed
    /\ \E n \in 1..Len(descriptors) :
          /\ Len(SourceTitle(descriptors[n])) = 101
          /\ Len(descriptors[n].title) = 100
          /\ descriptors[n].title[97] = SourceTitle(descriptors[n])[97]
          /\ EndsWith(descriptors[n].title, <<".", ".", ".">>)

\* Place <<entry, attachment>> a comes before place b in the input
SrcBefore(a, b) == a[1] < b[1] \/ (a[1] = b[1] /\ a[2] < b[2])

\* C14: the parsers return the media items in non-decreasing timestamp
\* order, items with equal timestamps in their input order, and the first
\* pass of download_media names the items of a batch in exactly that order:
\* item k gets the name its base name and its rank among the items before it
\* determine.
C14_SortedStableNamedInOrder ==
    Parsed =>
        /\ \A n \in 1..(Len(descriptors) - 1) :
              StrLeq(descriptors[n].date, descriptors[n + 1].date)
        /\ \A m \in 1..Len(descriptors) : \A n \in 1..Len(descriptors) :
              (m < n /\ descriptors[m].date = descriptors[n].date)
                  => SrcBefore(descriptors[m].src, descriptors[n].src)
        /\ \A k \in Named :
              /\ k > 1 => batch_items[k - 1] < batch_items[k]
              /\ media_items[k].date = descriptors[batch_items[k]].date
              /\ media_items[k].owner = descriptors[batch_items[k]].owner
              /\ filenames[k] = TargetNames[k]

\* C14 witness: the sort moved an item in front of an earlier entry's item,
\* two items of different entries have the same timestamp, and the first
\* pass has named every item.
C14_Witness ==
    /\ Parsed
    /\ Len(filenames) = Len(descriptors)
    /\ \E m \in 1..Len(descriptors) : \E n \in 1..Len(descriptors) :
          /\ m < n
          /\ descriptors[m].src[1] > descriptors[n].src[1]
    /\ \E m \in 1..Len(descriptors) : \E n \in 1..Len(descriptors) :
          /\ m < n
          /\ descriptors[m].date = descriptors[n].date
          /\ descriptors[m].src[1] < descriptors[n].src[1]

----------------------------------------------------------------------------
\* Claims about the folder names and the run

\* No leading, trailing or doubled underscore
CleanUnderscores(s) ==
    /\ s # << >> => (s[1] # "_" /\ s[Len(s)] # "_")
    /\ \A k \in 1..(Len(s) - 1) : ~(s[k] = "_" /\ s[k + 1] = "_")

\* C16 as claimed: the result has no leading, trailing or doubled
\* underscore, and every non-word character of the input has become an
\* underscore, so that only word characters are left.
C16_OnlyWordCharsLeft ==
    san_result # None =>
        /\ CleanUnderscores(san_result[1])
        /\ \A k \in 1..Len(san_result[1]) : san_result[1][k] \in WordChars

\* C16 as amended: the result has no leading, trailing or doubled
\* underscore; hyphens are kept like word characters, every other non-word
\* character has become an underscore, and the letters, digits and hyphens
\* of the input are all there, in their order.
C16_HyphenKept ==
    san_result # None =>
        /\ CleanUnderscores(san_result[1])
        /\ \A k \in 1..Len(san_result[1]) :
              san_result[1][k] \in WordChars \cup {"-"}
        /\ RemoveChar(san_result[1], "_") =
              SelectSeq(san_name, LAMBDA c : c \in (WordChars \ {"_"}) \cup {"-"})

\* C16 witness: "_a!-" has been sanitized to "a_-".
C16_Witness ==
    /\ san_name = <<"_", "a", "!", "-">>
    /\ san_result = Some(<<"a", "_", "-">>)

\* C15: every downloaded chat item lies in the folder named by the
\* sanitized form of its own dialog name, and two different conversations
\* never share a folder.
C15_OneFolderPerConversation ==
    (Parsed /\ feed = "chat") =>
        /\ \A n \in 1..Len(all_downloaded) :
              all_downloaded[n].path[1] =
                  sanitize_folder_name(descriptors[all_downloaded[n].item].dialog_name)
        /\ \A a \in 1..Len(by_dialog) : \A b \in 1..Len(by_dialog) :
              a # b => FolderOf(feed, by_dialog[a]) # FolderOf(feed, by_dialog[b])

\* The paths of the files the run fetched successfully
FetchedPaths == {all_downloaded[n].path : n \in 1..Len(all_downloaded)}

TagCallsOn(p) == {n \in 1..Len(tag_calls) : tag_calls[n].path = p}

\* C17: with the tool available, tagging starts only after the last batch,
\* the tool is invoked exactly once for each file fetched successfully in
\* the run and for no other file, and an invocation that fails is followed
\* by the invocations for the remaining files.
C17_TaggedOncePerFetchedFile ==
    /\ rpc \notin {"tagged", "done"} => tag_calls = << >>
    /\ (rpc \in {"tagged", "done"} /\ has_exiftool) =>
          /\ \A p \in FetchedPaths : Cardinality(TagCallsOn(p)) = 1
          /\ \A n \in 1..Len(tag_calls) : tag_calls[n].path \in FetchedPaths
          /\ tag_failed \subseteq 1..Len(tag_calls)

\* What a finished run returned is the list of the fetched paths, and each
\* of these files is in its folder
ReturnsFetched ==
    /\ run_result = Some([n \in 1..Len(all_downloaded) |-> all_downloaded[n].path])
    /\ \A n \in 1..Len(all_downloaded) :
          all_downloaded[n].path[2] \in DirContent(dirs, all_downloaded[n].path[1])

\* C18 as claimed: without the tagging tool the run makes no tagging
\* invocation, prints a single warning, and still downloads and returns the
\* newly downloaded paths.
C18_SingleWarning ==
    ~has_exiftool =>
        /\ tag_calls = << >>
        /\ rpc = "done" => (warnings = 1 /\ ReturnsFetched)

\* C18 as amended: without the tagging tool the run makes no tagging
\* invocation and still downloads and returns the newly downloaded paths;
\* run() prints one warning when it finds the tool missing, and the tagging
\* step, reached when the input has media, prints a second one (one for the
\* whole batch, none per file).
C18_WarningPerStep ==
    ~has_exiftool =>
        /\ tag_calls = << >>
        /\ tag_failed = {}
        /\ rpc \in {"batches", "tagging"} => warnings = 1
        /\ rpc \in {"tagged", "done"} =>
              warnings = (IF descriptors = << >> THEN 1 ELSE 2)
        /\ rpc = "done" => ReturnsFetched

\* C18 witness: a run without the tool has ended after fetching two files.
C18_Witness ==
    /\ ~has_exiftool
    /\ rpc = "done"
    /\ Len(all_downloaded) = 2
    /\ warnings = 2

----------------------------------------------------------------------------
\* The marker the .last_sync file holds under a key, None when the file is
\* absent, unreadable or lacks the key
StoredMarker(file, k) ==
    IF file.kind = "json" /\ k \in DOMAIN file.data
    THEN Some(file.data[k])
    ELSE None

\* C19: saving the sync state merges instead of replacing. After a run of
\* main, in incremental mode and with --all alike, the marker of a feed
\* differs from the one stored before only if the run fetched at least one
\* item with a timestamp for that feed and did not exit; so a run that
\* obtained a new marker for one feed only leaves the other feed's marker,
\* and every other key of the file, as it was.
C19_MarkersMergedNotReplaced ==
    last_fetch # None =>
        LET run == last_fetch[1]
        IN  /\ \A k \in {"messages", "notes"} :
                StoredMarker(sync_file, k) # StoredMarker(sync_before, k)
                    => run[k].stamped /\ ~run.exited
            /\ StoredMarker(sync_file, "other") = StoredMarker(sync_before, "other")

\* A run with --all that fetched stamped messages and no stamped notes: the
\* messages marker moved, the notes marker stored before is still there
C19_Witness ==
    /\ last_fetch # None
    /\ last_fetch[1].all
    /\ last_fetch[1].messages.stamped
    /\ ~last_fetch[1].notes.stamped
    /\ StoredMarker(sync_file, "messages") # StoredMarker(sync_before, "messages")
    /\ StoredMarker(sync_before, "notes") # None
    /\ StoredMarker(sync_file, "notes") = StoredMarker(sync_before, "notes")

\* The same in incremental mode, for the notes feed
C19_WitnessIncremental ==
    /\ last_fetch # None
    /\ ~last_fetch[1].all
    /\ last_fetch[1].notes.stamped
    /\ ~last_fetch[1].messages.fetched
    /\ StoredMarker(sync_file, "notes") # StoredMarker(sync_before, "notes")
    /\ StoredMarker(sync_before, "messages") # None
    /\ StoredMarker(sync_file, "messages") = StoredMarker(sync_before, "messages")

----------------------------------------------------------------------------
\* C20: load_config on a config file that is a JSON object returns every
\* key of the file, known or unknown, with the file's value (so the file
\* wins over the default), the default null for every default key the file
\* lacks, and no other key.
C20_FileWinsDefaultsFill ==
    (loaded_config # None /\ config_file.kind = "json") =>
        LET got == loaded_config[1]
        IN  /\ ~got.raised
            /\ DOMAIN got.config = {"location", "email", "op_path"} \cup DOMAIN config_file.data
            /\ \A k \in DOMAIN config_file.data : got.config[k] = config_file.data[k]
            /\ \A k \in {"location", "email", "op_path"} \ DOMAIN config_file.data :
                    got.config[k] = None

\* The file sets location and an unknown key and lacks email
C20_Witness ==
    /\ loaded_config # None
    /\ config_file.kind = "json"
    /\ DOMAIN config_file.data = {"location", "extra"}
    /\ config_file.data["location"] = Some("home")
    /\ loaded_config[1].config["location"] = Some("home")
    /\ loaded_config[1].config["extra"] = config_file.data["extra"]
    /\ loaded_config[1].config["email"] = None

----------------------------------------------------------------------------
C22_MalformedTreatedAsAbsent ==
    (loaded_config # None /\ config_file.kind \in {"corrupt", "not_object"}) =>
        /\ ~loaded_config[1].raised
        /\ loaded_config[1].config = [k \in {"location", "email", "op_path"} |-> None]

----------------------------------------------------------------------------
\* C23: in download.run, a feed whose input file is missing is reported as
\* skipped (its results entry is (name, False, 0) and its script is not
\* called) while the other feed, if asked for and present, is still
\* processed in the same run; with home_only the chat script is never
\* called and with chat_only the home script is never called.
C23_MissingFeedSkippedOtherProcessed ==
    run_args # None =>
        LET a == run_args[1]
            called(f) == \E i \in 1..Len(feed_calls) : feed_calls[i] = f
            skipped(f) == \E i \in 1..Len(results) : results[i] = <<f, FALSE, 0>>
        IN  /\ (~a.chat_only /\ ~a.notes) => (skipped("Home") /\ ~called("Home"))
            /\ (~a.home_only /\ ~a.message) => (skipped("Chat") /\ ~called("Chat"))
            /\ (~a.chat_only /\ a.notes) => (called("Home") /\ ~skipped("Home"))
            /\ (~a.home_only /\ a.message) => (called("Chat") /\ ~skipped("Chat"))
            /\ a.home_only => ~called("Chat")
            /\ a.chat_only => ~called("Home")

\* notes.json is missing, message.json is there and gave two new files
C23_Witness ==
    /\ run_args # None
    /\ ~run_args[1].home_only /\ ~run_args[1].chat_only
    /\ ~run_args[1].notes /\ run_args[1].message
    /\ feed_calls = <<"Chat">>
    /\ results = <<<<"Home", FALSE, 0>>, <<"Chat", TRUE, 2>>>>

----------------------------------------------------------------------------
\* C24: when login automation captures neither an lg_session nor a QB
\* token, the failure is reported, neither the fetch step nor the download
\* step is started, the sync-state file is left unchanged, and the process
\* exits with status 1 (sync.py and login.py alike).
C24_NoTokensAborts ==
    (/\ tool_args # None
     /\ ~tool_args[1].manual
     /\ tool_args[1].login = "ok"
     /\ ~tool_args[1].tokens.lg_session
     /\ ~tool_args[1].tokens.qb_token) =>
        /\ "Error: No tokens captured" \in reports
        /\ steps = << >>
        /\ sync_file = sync_before
        /\ photos = {} /\ new_folder = None
        /\ exit_status = <<1>>

\* sync.py in automatic mode, only the x-uid captured, a .last_sync with a
\* messages marker in place
C24_Witness ==
    /\ tool_args # None
    /\ tool_args[1].entry = "sync"
    /\ ~tool_args[1].manual
    /\ tool_args[1].login = "ok"
    /\ tool_args[1].tokens = [lg_session |-> FALSE, x_uid |-> TRUE, qb_token |-> FALSE]
    /\ sync_file.kind = "json" /\ "messages" \in DOMAIN sync_file.data
    /\ exit_status = <<1>>

\* C26: in manual mode, once at least one valid cURL command was pasted,
\* the sync runs the fetch step and then, only if fetch reported success,
\* the download step and finishes normally; if both pasted commands are
\* invalid or the fetch fails, the process exits with status 1 without
\* downloading.
C26_ManualFetchThenDownload ==
    (tool_args # None /\ tool_args[1].manual) =>
        IF tool_args[1].lg_valid \/ tool_args[1].qb_valid
        THEN /\ Len(steps) >= 1 /\ steps[1] = "fetch"
             /\ \/ steps = <<"fetch", "download">> /\ exit_status = <<0>>
                \/ steps = <<"fetch">> /\ exit_status = <<1>>
        ELSE steps = << >> /\ exit_status = <<1>>

\* C30: in automatic mode the sync reports success (exit status 0) only if
\* tokens were captured and the fetch step succeeded, that is, only when
\* the download step was started after the fetch step; a run whose fetch
\* step failed does not start the download step and exits with status 1.
C30_AutoSuccessOnlyAfterFetch ==
    (tool_args # None /\ ~tool_args[1].manual /\ tool_args[1].entry = "sync") =>
        /\ exit_status = <<0>> => steps = <<"fetch", "download">>
        /\ steps = <<"fetch">> => exit_status = <<1>>

----------------------------------------------------------------------------
\* C27: a media item whose fetch failed in one sync run is attempted again
\* by the next sync run (fetch followed by download), also when that next
\* incremental fetch returned new messages and rewrote the data file.
C27_FailedItemRetriedNextRun ==
    (sync_pc = "idle" /\ fetch_no >= 2) => failed_before \subseteq attempted

\* C28: after any sequence of incremental fetch runs, every chat message
\* whose date_sent is at or below the saved 'messages' marker has been
\* written to the messages output file by some run, also when the message
\* request of a dialog failed in a run.
C28_MarkerCoversOnlyWrittenMessages ==
    \A id \in 1..arrived :
        (/\ StoredMarker(sync_file, "messages") # None
         /\ MsgStamp(id) <= StoredMarker(sync_file, "messages")[1])
            => id \in written_msgs

----------------------------------------------------------------------------
\* C29: download_media counts a file as 'already exists' only if an earlier
\* fetch of it completed successfully: a fetch that failed, also one that
\* failed after starting to write its target path, leaves no file there
\* that makes a later call skip the item.
C29_SkippedOnlyIfFetchedBefore ==
    \A k \in 1..Len(filenames) :
        filenames[k] \in disk_at_start => filenames[k] \in fetched_ok

====
